---- MODULE Spec2Model ----
(***************************************************************************)
(* Model of the AI travel guide: the chat loops of app.py (WebSocket and   *)
(* CLI) over the LangGraph agent of trip_agent.py, and the location        *)
(* normalizer with the tools that use it.                                  *)
(*                                                                         *)
(* A Python str is modelled as a sequence of one-character strings, so     *)
(* that lower(), strip(), title(), the "in" substring test and difflib's   *)
(* similarity ratio are computed character by character.                   *)
(***************************************************************************)
EXTENDS Integers, Sequences, FiniteSets, TLC

VARIABLES
    mode,        \* "server" | "cli": the branch taken at the entry point
    SESSIONS,    \* app.SESSIONS: user id -> message list, or NoSession
    pc,          \* per handler: where ws_chat / run_cli stands
    uid,         \* per handler: the user_id of ws_chat / run_cli
    user_text,   \* per handler: the text last received
    sent,        \* per handler: what was sent since the last receive
    nrecv,       \* per handler: number of texts received so far
    dispatches,  \* per handler: rounds of the tools node in the current turn
    graph,       \* the GRAPH.invoke in progress (it blocks the event loop)
    inputs,      \* per user id: the texts appended at app.py:242/345 since the
                 \* session was created (history variable)
    tpc,         \* tool run: "off" | "call" | "checked" | "done"
    location,    \* tool run: the location argument
    resolution,  \* tool run: result of smart_spell_check_location
    tool_out,    \* tool run: what the tool returned
    cap,         \* tool run: a capability call, its network outcome and result
    primary,     \* alerts: the contacts collection of db/mongo.py, per user id
    local_file,  \* alerts: emergency_contacts.json (ContactsRepository)
    sos,         \* alerts: the trigger_sos call in progress
    reg,         \* alerts: the last contact registration and what it returned
    phone,       \* alerts: a number string and what normalization made of it
    synth,       \* synthesis: a user query, what the enrichment calls do, and
                 \* the final prompt built
    run          \* tool call: a tool, its arguments and what it did

chatVars == <<mode, SESSIONS, pc, uid, user_text, sent, nrecv, dispatches, graph, inputs>>
toolVars == <<tpc, location, resolution, tool_out, cap, synth, run>>
sosVars == <<primary, local_file, sos, reg, phone>>
vars == <<mode, SESSIONS, pc, uid, user_text, sent, nrecv, dispatches, graph, inputs,
          tpc, location, resolution, tool_out, cap, synth, run,
          primary, local_file, sos, reg, phone>>

-----------------------------------------------------------------------------
(* Bounds of the model                                                     *)

\* longest location argument drawn from LocAlphabet
MaxLocLen == 3

-----------------------------------------------------------------------------
(* Python str operations                                                   *)

UpperChars == <<"A","B","C","D","E","F","G","H","I","J","K","L","M",
                "N","O","P","Q","R","S","T","U","V","W","X","Y","Z">>
LowerChars == <<"a","b","c","d","e","f","g","h","i","j","k","l","m",
                "n","o","p","q","r","s","t","u","v","w","x","y","z">>

IsUpper(c) == \E i \in 1..Len(UpperChars) : UpperChars[i] = c
IsLower(c) == \E i \in 1..Len(LowerChars) : LowerChars[i] = c
IsCased(c) == IsUpper(c) \/ IsLower(c)

LowerChar(c) ==
    IF IsUpper(c) THEN LowerChars[CHOOSE i \in 1..Len(UpperChars) : UpperChars[i] = c]
    ELSE c

UpperChar(c) ==
    IF IsLower(c) THEN UpperChars[CHOOSE i \in 1..Len(LowerChars) : LowerChars[i] = c]
    ELSE c

\* str.lower()
Lower(s) == [i \in 1..Len(s) |-> LowerChar(s[i])]

\* str.title(): a cased character is upper-cased after an uncased one (or
\* at the start) and lower-cased after a cased one
Title(s) ==
    [i \in 1..Len(s) |->
        IF i > 1 /\ IsCased(s[i-1]) THEN LowerChar(s[i]) ELSE UpperChar(s[i])]

Whitespace == {" ", "\t", "\n"}

\* str.strip()
Strip(s) ==
    LET Solid == {i \in 1..Len(s) : s[i] \notin Whitespace}
    IN  IF Solid = {} THEN <<>>
        ELSE SubSeq(s, CHOOSE i \in Solid : \A j \in Solid : i <= j,
                       CHOOSE i \in Solid : \A j \in Solid : i >= j)

\* str.split(): the words between runs of whitespace
RECURSIVE SplitFrom(_, _, _)
SplitFrom(s, i, word) ==
    IF i > Len(s) THEN (IF word = <<>> THEN <<>> ELSE <<word>>)
    ELSE IF s[i] \in Whitespace
    THEN (IF word = <<>> THEN <<>> ELSE <<word>>) \o SplitFrom(s, i + 1, <<>>)
    ELSE SplitFrom(s, i + 1, Append(word, s[i]))

Split(s) == SplitFrom(s, 1, <<>>)

\* sub in s
Contains(s, sub) ==
    \E i \in 0..(Len(s) - Len(sub)) : SubSeq(s, i + 1, i + Len(sub)) = sub

\* s.startswith(prefix)
StartsWith(s, prefix) ==
    Len(prefix) <= Len(s) /\ SubSeq(s, 1, Len(prefix)) = prefix

\* code-point order of the characters of the gazetteer
OrdChars == <<" ">> \o LowerChars
Ord(c) == CHOOSE i \in 1..Len(OrdChars) : OrdChars[i] = c

\* x < y for Python strings (lexicographic by code point)
StrLess(x, y) ==
    \E k \in 1..Len(y) :
        /\ k <= Len(x) + 1
        /\ \A t \in 1..(k-1) : x[t] = y[t]
        /\ (k = Len(x) + 1 \/ Ord(x[k]) < Ord(y[k]))

Min2(m, n) == IF m <= n THEN m ELSE n

-----------------------------------------------------------------------------
(* difflib.SequenceMatcher and get_close_matches, as called at             *)
(* trip_agent.py:75-79.  A ratio 2.0*M/T is kept as the pair <<2M, T>>;   *)
(* with operands this small the float comparison against 0.6 and 0.8      *)
(* agrees with the comparison of the fractions.                            *)

\* SequenceMatcher.find_longest_match over a[alo:ahi], b[blo:bhi] (0-based,
\* half-open): the longest common block, the earliest in a, then in b
FindLongestMatch(a, b, alo, ahi, blo, bhi) ==
    LET Blocks == {blk \in (alo..(ahi-1)) \X (blo..(bhi-1)) \X (1..(ahi-alo)) :
                     /\ blk[1] + blk[3] <= ahi
                     /\ blk[2] + blk[3] <= bhi
                     /\ \A t \in 1..blk[3] : a[blk[1] + t] = b[blk[2] + t]}
        Better(x, y) == \/ x[3] > y[3]
                        \/ x[3] = y[3] /\ x[1] < y[1]
                        \/ x[3] = y[3] /\ x[1] = y[1] /\ x[2] <= y[2]
    IN  IF Blocks = {} THEN <<alo, blo, 0>>
        ELSE CHOOSE x \in Blocks : \A y \in Blocks : Better(x, y)

\* sum of the sizes of SequenceMatcher.get_matching_blocks()
RECURSIVE MatchingSize(_, _, _, _, _, _)
MatchingSize(a, b, alo, ahi, blo, bhi) ==
    IF alo >= ahi \/ blo >= bhi THEN 0
    ELSE LET m == FindLongestMatch(a, b, alo, ahi, blo, bhi)
         IN  IF m[3] = 0 THEN 0
             ELSE m[3] + MatchingSize(a, b, alo, m[1], blo, m[2])
                       + MatchingSize(a, b, m[1] + m[3], ahi, m[2] + m[3], bhi)

\* difflib._calculate_ratio
CalculateRatio(matches, length) ==
    IF length > 0 THEN <<2 * matches, length>> ELSE <<1, 1>>

\* SequenceMatcher(None, a, b).ratio()
Ratio(a, b) ==
    CalculateRatio(MatchingSize(a, b, 0, Len(a), 0, Len(b)), Len(a) + Len(b))

Occurrences(s, c) == Cardinality({i \in 1..Len(s) : s[i] = c})
CharsOf(s) == {s[i] : i \in 1..Len(s)}

RECURSIVE SumOver(_, _, _, _)
SumOver(S, a, b, acc) ==
    IF S = {} THEN acc
    ELSE LET c == CHOOSE x \in S : TRUE
         IN  SumOver(S \ {c}, a, b, acc + Min2(Occurrences(a, c), Occurrences(b, c)))

\* SequenceMatcher.quick_ratio(): multiset intersection of the characters
QuickRatio(a, b) ==
    CalculateRatio(SumOver(CharsOf(a), a, b, 0), Len(a) + Len(b))

\* SequenceMatcher.real_quick_ratio(): from the lengths alone
RealQuickRatio(a, b) ==
    CalculateRatio(Min2(Len(a), Len(b)), Len(a) + Len(b))

\* r >= q for ratios kept as fractions
RatioGE(r, q) == r[1] * q[2] >= q[1] * r[2]
RatioEq(r, q) == r[1] * q[2] = q[1] * r[2]

\* difflib.get_close_matches(word, possibilities, n=1, cutoff): the
\* possibilities scoring at least cutoff, best (score, string) first; the
\* matcher is given seq1 = possibility, seq2 = word
GetCloseMatches(word, possibilities, cutoff) ==
    LET Passing == {i \in 1..Len(possibilities) :
                      /\ RatioGE(RealQuickRatio(possibilities[i], word), cutoff)
                      /\ RatioGE(QuickRatio(possibilities[i], word), cutoff)
                      /\ RatioGE(Ratio(possibilities[i], word), cutoff)}
        Score(i) == Ratio(possibilities[i], word)
        Above(i, j) == \/ ~RatioGE(Score(j), Score(i))
                       \/ /\ RatioEq(Score(i), Score(j))
                          /\ StrLess(possibilities[j], possibilities[i])
    IN  IF Passing = {} THEN <<>>
        ELSE <<possibilities[CHOOSE i \in Passing :
                                \A j \in Passing \ {i} : Above(i, j)]>>

-----------------------------------------------------------------------------
(* Location normalizer (trip_agent.py)                                     *)

DESTINATIONS ==
 <<
    <<"m","u","m","b","a","i">>,
    <<"d","e","l","h","i">>,
    <<"b","a","n","g","a","l","o","r","e">>,
    <<"h","y","d","e","r","a","b","a","d">>,
    <<"c","h","e","n","n","a","i">>,
    <<"k","o","l","k","a","t","a">>,
    <<"p","u","n","e">>,
    <<"a","h","m","e","d","a","b","a","d">>,
    <<"j","a","i","p","u","r">>,
    <<"l","u","c","k","n","o","w">>,
    <<"k","a","n","p","u","r">>,
    <<"n","a","g","p","u","r">>,
    <<"i","n","d","o","r","e">>,
    <<"b","h","o","p","a","l">>,
    <<"v","i","s","a","k","h","a","p","a","t","n","a","m">>,
    <<"p","a","t","n","a">>,
    <<"g","o","a">>,
    <<"k","e","r","a","l","a">>,
    <<"r","a","j","a","s","t","h","a","n">>,
    <<"h","i","m","a","c","h","a","l"," ","p","r","a","d","e","s","h">>,
    <<"u","t","t","a","r","a","k","h","a","n","d">>,
    <<"k","a","s","h","m","i","r">>,
    <<"l","a","d","a","k","h">>,
    <<"a","g","r","a">>,
    <<"v","a","r","a","n","a","s","i">>,
    <<"h","a","r","i","d","w","a","r">>,
    <<"r","i","s","h","i","k","e","s","h">>,
    <<"d","h","a","r","a","m","s","h","a","l","a">>,
    <<"m","a","n","a","l","i">>,
    <<"s","h","i","m","l","a">>,
    <<"u","d","a","i","p","u","r">>,
    <<"j","o","d","h","p","u","r">>,
    <<"p","u","s","h","k","a","r">>,
    <<"m","o","u","n","t"," ","a","b","u">>,
    <<"r","a","n","t","h","a","m","b","o","r","e">>,
    <<"j","i","m"," ","c","o","r","b","e","t","t">>,
    <<"k","o","c","h","i">>,
    <<"t","h","i","r","u","v","a","n","a","n","t","h","a","p","u","r","a","m">>,
    <<"a","l","l","e","p","p","e","y">>,
    <<"m","u","n","n","a","r">>,
    <<"t","h","e","k","k","a","d","y">>,
    <<"m","y","s","o","r","e">>,
    <<"c","o","o","r","g">>,
    <<"o","o","t","y">>,
    <<"k","o","d","a","i","k","a","n","a","l">>,
    <<"p","o","n","d","i","c","h","e","r","r","y">>,
    <<"h","a","m","p","i">>,
    <<"b","a","d","a","m","i">>,
    <<"p","a","r","i","s">>,
    <<"l","o","n","d","o","n">>,
    <<"d","u","b","a","i">>,
    <<"s","i","n","g","a","p","o","r","e">>,
    <<"t","h","a","i","l","a","n","d">>,
    <<"m","a","l","a","y","s","i","a">>,
    <<"j","a","p","a","n">>,
    <<"s","w","i","t","z","e","r","l","a","n","d">>,
    <<"n","e","w"," ","y","o","r","k">>,
    <<"t","o","r","o","n","t","o">>,
    <<"s","y","d","n","e","y">>,
    <<"b","a","l","i">>,
    <<"m","a","l","d","i","v","e","s">>,
    <<"n","e","p","a","l">>,
    <<"b","h","u","t","a","n">>,
    <<"s","r","i"," ","l","a","n","k","a">> >>

\* the default of confidence_threshold, 0.8
ConfidenceThreshold == <<8, 10>>
\* the cutoff handed to get_close_matches and the lower limit of a suggestion, 0.6
SuggestCutoff == <<6, 10>>

LocationResolution(name, was_corrected, needs_confirmation) ==
    [name |-> name, was_corrected |-> was_corrected,
     needs_confirmation |-> needs_confirmation]

\* smart_spell_check_location with > in place of >= at the threshold
smart_spell_check_strict(loc, confidence_threshold) ==
    LET location_lower == Strip(Lower(loc))
        matches == GetCloseMatches(location_lower, DESTINATIONS, SuggestCutoff)
    IN  IF matches # <<>>
        THEN LET match == matches[1]
                 similarity == Ratio(location_lower, match)
             IN  IF ~RatioGE(confidence_threshold, similarity)
                 THEN LocationResolution(Title(match), TRUE, FALSE)
                 ELSE IF RatioGE(similarity, SuggestCutoff)
                 THEN LocationResolution(Title(match), TRUE, TRUE)
                 ELSE LocationResolution(loc, FALSE, FALSE)
        ELSE LocationResolution(loc, FALSE, FALSE)

smart_spell_check_location(loc, confidence_threshold) ==
    LET location_lower == Strip(Lower(loc))
        matches == GetCloseMatches(location_lower, DESTINATIONS, SuggestCutoff)
    IN  IF matches # <<>>
        THEN LET match == matches[1]
                 similarity == Ratio(location_lower, match)
             IN  IF RatioGE(similarity, confidence_threshold)
                 THEN LocationResolution(Title(match), TRUE, FALSE)
                 ELSE IF RatioGE(similarity, SuggestCutoff)
                 THEN LocationResolution(Title(match), TRUE, TRUE)
                 ELSE LocationResolution(loc, FALSE, FALSE)
        ELSE LocationResolution(loc, FALSE, FALSE)

\* WeatherTool: the text returned is a notice (or none) followed by the text
\* of get_weather for the looked-up name; lookups lists the get_weather calls
WeatherTool(loc) ==
    LET r == smart_spell_check_location(loc, ConfidenceThreshold)
    IN  IF r.needs_confirmation
        THEN [notice |-> "did_you_mean", shown |-> r.name, lookups |-> <<r.name>>]
        ELSE LET final_location == IF r.was_corrected THEN r.name ELSE loc
             IN  IF r.was_corrected /\ ~r.needs_confirmation
                 THEN [notice |-> "showing", shown |-> r.name,
                       lookups |-> <<final_location>>]
                 ELSE [notice |-> "none", shown |-> <<>>,
                       lookups |-> <<final_location>>]

-----------------------------------------------------------------------------
(* The handlers, sessions and messages of app.py                           *)

Conns == {"ws1", "ws2"}
Cli == "cli"
Handlers == Conns \cup {Cli}
UserIds == {"u1", "u2"}
CliUser == "cli_user"
SessionIds == UserIds \cup {CliUser}

\* no synthesis prompt built
NoPrompt == [made |-> FALSE, user_query |-> <<>>, tool_results |-> <<>>]

IdleGraph == [owner |-> "none", node |-> "idle", messages |-> <<>>,
              attempt |-> 0, rounds |-> 0, final_prompt |-> NoPrompt]

ChatOff ==
    /\ mode = "off"
    /\ SESSIONS = [u \in SessionIds |-> [exists |-> FALSE, messages |-> <<>>]]
    /\ pc = [p \in Handlers |-> "closed"]
    /\ uid = [p \in Handlers |-> "none"]
    /\ user_text = [p \in Handlers |-> <<>>]
    /\ sent = [p \in Handlers |-> <<>>]
    /\ nrecv = [p \in Handlers |-> 0]
    /\ dispatches = [p \in Handlers |-> 0]
    /\ graph = IdleGraph
    /\ inputs = [u \in SessionIds |-> <<>>]

-----------------------------------------------------------------------------
(* The parts that are at rest while another part of the program runs       *)

\* no synthesis under way
NoFlags ==
    [is_places_query |-> FALSE, is_weather_query |-> FALSE,
     is_images_query |-> FALSE, is_trip_planning |-> FALSE,
     budget |-> FALSE, location_match |-> <<>>]

NoSynthesis ==
    [pc |-> "off", query |-> <<>>, flags |-> NoFlags, steps |-> <<>>,
     final_prompt |-> [user_query |-> <<>>, tool_results |-> <<>>,
                       enrichment |-> <<>>, template |-> "none"]]

\* no tool call made
NoRun ==
    [pc |-> "off", tool |-> "none", location |-> <<>>, place_name |-> <<>>,
     place_type |-> <<>>, configured |-> FALSE, resolutions |-> <<>>,
     out |-> [prefix |-> "none", shown |-> <<>>, lookups |-> <<>>, reply |-> "none"]]

\* no capability call made
NoCall == [tool |-> "none", configured |-> FALSE, net |-> "none",
           raised |-> FALSE, head |-> "none"]

\* the user id the alert functions are called for
SosUsers == {"u1"}

\* emergency_contacts.json: absent, or holding a list of contact records
NoFile == [exists |-> FALSE, contacts |-> <<>>]

\* no registration made
NoRegistration ==
    [kind |-> "none", user |-> "none", primary_failed |-> FALSE,
     local_attempted |-> FALSE, local_written |-> FALSE, text |-> "none",
     raised |-> FALSE, via |-> "none", status |-> "none",
     given |-> <<>>]

\* no trigger_sos call in progress
NoTrigger ==
    [pc |-> "idle", via |-> "none", user |-> "none", whatsapp |-> FALSE,
     user_message |-> <<>>, user_location |-> <<>>, clock |-> 0, created |-> 0,
     message |-> [content |-> <<>>, location |-> <<>>, timestamp |-> <<>>],
     primary_load |-> "none", local_load |-> "none", contacts_list |-> <<>>,
     i |-> 0, results |-> <<>>, sends |-> <<>>,
     result |-> [kind |-> "none", k |-> 0, n |-> 0, lines |-> <<>>, text |-> <<>>],
     status |-> "none"]

\* no number normalized, no contact constructed
NoPhone ==
    [pc |-> "off", input |-> <<>>, once |-> <<>>, twice |-> <<>>,
     local |-> <<>>, intl |-> <<>>]

SosOff ==
    /\ primary = [u \in SosUsers |-> <<>>]
    /\ local_file = NoFile
    /\ sos = NoTrigger
    /\ reg = NoRegistration
    /\ phone = NoPhone

-----------------------------------------------------------------------------
(* Messages (langchain_core.messages)                                      *)

Message(type, content, tool_calls, name, tool_call_id) ==
    [type |-> type, content |-> content, tool_calls |-> tool_calls,
     name |-> name, tool_call_id |-> tool_call_id]

HumanMessage(content) == Message("human", content, <<>>, "", <<>>)
AIMessage(content, tool_calls) == Message("ai", content, tool_calls, "", <<>>)
ToolMessage(name, tool_call_id, content) ==
    Message("tool", content, <<>>, name, tool_call_id)

\* the texts a client may send
T_Empty == <<>>
T_Blank == <<" ","\t">>
T_SOS == <<"S","O","S">>
T_Urgent == <<"u","r","g","e","n","t">>
T_HelpSetup == <<"h","e","l","p"," ","m","e"," ","s","e","t","u","p">>
T_Plan == <<"p","l","a","n">>
T_NearMe == <<"n","e","a","r"," ","m","e">>
T_Live == <<"[","L","I","V","E","_","L","O","C","A","T","I","O","N","]"," ",
            "l","a","t","=","1"," ","l","o","n","=","2">>
T_Exit == <<"e","x","i","t">>

UserTexts == {T_Empty, T_Blank, T_SOS, T_Urgent, T_HelpSetup, T_Plan, T_NearMe, T_Live}
CliTexts == {T_Empty, T_Blank, T_SOS, T_Plan, T_Exit}

\* any(word in text for word in words)
AnyIn(words, text) == \E i \in 1..Len(words) : Contains(text, words[i])

SosWords == << <<"s","o","s">>, <<"e","m","e","r","g","e","n","c","y">>,
               <<"h","e","l","p"," ","m","e">>, <<"u","r","g","e","n","t">> >>
SetupWords == << <<"a","d","d"," ","c","o","n","t","a","c","t">>,
                 <<"s","e","t","u","p">> >>
AlertWords == << <<"s","o","s">>, <<"e","m","e","r","g","e","n","c","y">> >>
PlanWords == << <<"p","l","a","n">>, <<"t","r","i","p">>, <<"d","a","y","s">>,
                <<"i","t","i","n","e","r","a","r","y">> >>
InfoWords == << <<"w","e","a","t","h","e","r">>, <<"p","l","a","c","e","s">>,
                <<"d","i","r","e","c","t","i","o","n","s">>,
                <<"b","u","d","g","e","t">> >>
NearWords == << <<"n","e","a","r"," ","m","e">>, <<"n","e","a","r","b","y">> >>
ExitWords == { <<"e","x","i","t">>, <<"q","u","i","t">>, <<"b","y","e">> }

\* the blank test without strip()
IsBlankNoStrip(text) == text = <<>>

\* not user_text.strip()
IsBlank(text) == Strip(text) = <<>>

\* what ws_chat does with a text before the agent sees it (app.py:226-239):
\* "help", "sos_setup", "sos_button", or "turn" when it goes on to line 242
Route(text) ==
    LET user_lower == Lower(text)
    IN  IF IsBlank(text) THEN "help"
        ELSE IF AnyIn(SosWords, user_lower)
        THEN IF AnyIn(SetupWords, user_lower) THEN "sos_setup"
             ELSE IF AnyIn(AlertWords, user_lower) THEN "sos_button"
             ELSE "turn"
        ELSE "turn"

\* the progress note sent before the graph runs (app.py:245-248), or "none"
Thinking(text) ==
    LET user_lower == Lower(text)
    IN  IF AnyIn(PlanWords, user_lower) THEN "thinking_plan"
        ELSE IF AnyIn(InfoWords, user_lower) THEN "thinking_info"
        ELSE "none"

-----------------------------------------------------------------------------
(* The agent graph (trip_agent.py)                                         *)

\* most tool calls the model requests in one response
MaxCalls == 2

\* the tool names the model may ask for: a registered tool and a name that
\* is not registered
ToolNames == {"WeatherTool", "FlightTool"}
RegisteredTools == {"WeatherTool"}

\* the link glyph of app.py:275-279 is written "@"
LLMTexts == { <<>>, <<" ","G","o"," ","[","S","e","e"," ","H","e","r","e","]"," ">> }

\* the k-th tool asked for in a response: the two names in turn
RequestedTool(k) == IF k % 2 = 1 THEN "WeatherTool" ELSE "FlightTool"

\* the tool_calls a response appended at position pos may carry: 1..MaxCalls
\* calls, the call's id made of the position and the call's index
ToolCallSeqs(pos) ==
    { [k \in 1..n |-> [name |-> RequestedTool(k), id |-> <<pos, k>>]] :
        n \in 1..MaxCalls }

ToolText(name) ==
    IF name \in RegisteredTools THEN <<"o","k">> ELSE <<"E","r","r","o","r">>

InfoText == <<"[","I","N","F","O","]">>

NumChars == {"-", ".", "0", "1", "2", "3", "4", "5", "6", "7", "8", "9"}

\* re.search(key + r"([\-0-9\.]+)", text)
HasNumberAfter(text, key) ==
    \E i \in 0..(Len(text) - Len(key) - 1) :
        /\ SubSeq(text, i + 1, i + Len(key)) = key
        /\ text[i + Len(key) + 1] \in NumChars

\* _extract_live_location_hint(messages) is not None
HasLiveLocationHint(messages) ==
    \E i \in 1..Len(messages) :
        /\ messages[i].type = "human"
        /\ StartsWith(messages[i].content,
                      <<"[","L","I","V","E","_","L","O","C","A","T","I","O","N","]">>)
        /\ HasNumberAfter(messages[i].content, <<"l","a","t","=">>)
        /\ HasNumberAfter(messages[i].content, <<"l","o","n","=">>)

\* the reducer of State.messages
add_messages(left, right) == left \o right

\* chatbot: the branch for a last message of type tool is taken
Synthesizes(messages) ==
    messages # <<>> /\ messages[Len(messages)].type = "tool"

\* chatbot: user_query, the content of the last human message
RECURSIVE LastHumanContent(_, _)
LastHumanContent(messages, i) ==
    IF i = 0 THEN <<>>
    ELSE IF messages[i].type = "human" THEN messages[i].content
    ELSE LastHumanContent(messages, i - 1)

user_query(messages) == LastHumanContent(messages, Len(messages))

\* chatbot: tool_results, read from the end of the list back to the first ai
\* message met (every AIMessage has the attribute tool_calls) and put back
\* in the order of the list; one "name: content" entry per tool message
RECURSIVE RoundResults(_, _)
RoundResults(messages, i) ==
    IF i = 0 THEN <<>>
    ELSE IF messages[i].type = "tool"
    THEN Append(RoundResults(messages, i - 1),
                [name |-> messages[i].name, content |-> messages[i].content])
    ELSE IF messages[i].type = "ai" THEN <<>>
    ELSE RoundResults(messages, i - 1)

tool_results(messages) == RoundResults(messages, Len(messages))

\* chatbot: what every final_prompt holds, "User asked: ..." and
\* "Tool results: ..." (the enrichments and the instruction come after)
SynthesisPrompt(messages) ==
    [made |-> TRUE, user_query |-> user_query(messages),
     tool_results |-> tool_results(messages)]

\* chatbot with the synthesis call made on llm_with_tools: the reply after a
\* tool round may carry tool calls again
chatbot_tools_bound(messages) ==
    LET n == Len(messages)
    IN  { [state |-> messages, update |-> <<AIMessage(c, tc)>>] :
            c \in LLMTexts, tc \in {<<>>} \cup ToolCallSeqs(n + 1) }

\* chatbot(state): the possible outcomes, each the state's message list as
\* the node leaves it (line 545 appends to it in place; whether the running
\* graph keeps that append is the library's choice) and the update returned.
\* After a tool message the reply is synthesized by llm, which has no tools
\* bound; otherwise llm_with_tools answers with text, tool calls or both.
chatbot(messages) ==
    LET n == Len(messages)
    IN  IF n > 0 /\ messages[n].type = "tool"
        THEN { [state |-> messages, update |-> <<AIMessage(c, <<>>)>>] :
                 c \in LLMTexts }
        ELSE LET near == /\ n > 0
                         /\ messages[n].type = "human"
                         /\ AnyIn(NearWords, Lower(messages[n].content))
                         /\ HasLiveLocationHint(messages)
                 States == IF near
                           THEN {messages \o <<HumanMessage(InfoText)>>, messages}
                           ELSE {messages}
             IN  UNION { { [state |-> s, update |-> <<AIMessage(c, tc)>>] :
                             c \in LLMTexts,
                             tc \in {<<>>} \cup ToolCallSeqs(Len(s) + 1) } :
                         s \in States }

\* should_continue(state)
should_continue(messages) ==
    IF messages[Len(messages)].tool_calls # <<>> THEN "tools" ELSE "end"

\* ToolNode: one tool message per tool call of the last message, in order
tool_node(messages) ==
    LET calls == messages[Len(messages)].tool_calls
    IN  [k \in 1..Len(calls) |->
            ToolMessage(calls[k].name, calls[k].id, ToolText(calls[k].name))]

-----------------------------------------------------------------------------
(* The chat loops (app.py)                                                 *)

\* user texts received in one run, over all handlers
MaxTurns == 2

RECURSIVE SumRecv(_, _)
SumRecv(f, S) ==
    IF S = {} THEN 0
    ELSE LET p == CHOOSE x \in S : TRUE IN f[p] + SumRecv(f, S \ {p})
TotalRecv == SumRecv(nrecv, Handlers)

NoSession == [exists |-> FALSE, messages |-> <<>>]
Session(messages) == [exists |-> TRUE, messages |-> messages]
\* user_id in SESSIONS
HasSession(u) == SESSIONS[u].exists

\* a text sent to the client (or printed): a fixed template, or a reply with
\* its text and the position in the history of the message it was taken from
Note(kind) == [kind |-> kind, text |-> <<>>, src |-> 0]

\* the message the reply is taken from (app.py:259-267, 358-368): the last
\* ai message with non-empty text and no tool calls, 0 when there is none
LatestAiResponse(messages) ==
    LET Ok == {i \in 1..Len(messages) :
                 /\ messages[i].type = "ai"
                 /\ messages[i].content # <<>>
                 /\ messages[i].tool_calls = <<>>}
    IN  IF Ok = {} THEN 0 ELSE CHOOSE i \in Ok : \A j \in Ok : j <= i

\* str.replace(old, new) from position i on: the matches are taken from the
\* left and do not overlap
RECURSIVE ReplaceFrom(_, _, _, _)
ReplaceFrom(s, i, old, new) ==
    IF Len(s) - i + 1 < Len(old) THEN SubSeq(s, i, Len(s))
    ELSE IF SubSeq(s, i, i + Len(old) - 1) = old
    THEN new \o ReplaceFrom(s, i + Len(old), old, new)
    ELSE <<s[i]>> \o ReplaceFrom(s, i + 1, old, new)

\* str.replace(old, new); the string is evaluated once, as the one element
\* of a set
Replace(s, old, new) ==
    CHOOSE r \in {ReplaceFrom(v, 1, old, new) : v \in {s}} : TRUE

\* the link labels rewritten at app.py:274-280
Decorate(text) ==
    Replace(Replace(Replace(text,
        <<"[","S","e","e"," ","H","e","r","e","]">>,
        <<"[","@"," ","S","e","e"," ","H","e","r","e","]">>),
        <<"[","V","i","e","w"," ","H","e","r","e","]">>,
        <<"[","@"," ","V","i","e","w"," ","H","e","r","e","]">>),
        <<"[","C","h","e","c","k"," ","P","h","o","t","o","]">>,
        <<"[","@"," ","C","h","e","c","k"," ","P","h","o","t","o","]">>)

\* what ws_chat sends after the graph returned result (app.py:257-288)
WsReply(result, text) ==
    LET i == LatestAiResponse(result)
    IN  IF i > 0
        THEN [kind |-> "reply", text |-> Decorate(Strip(result[i].content)), src |-> i]
        ELSE IF AnyIn(PlanWords, Lower(text)) THEN Note("fallback_plan")
        ELSE Note("fallback_query")

\* the result stored cut to its last two messages
StoredResultTail(result) ==
    IF Len(result) <= 2 THEN result ELSE SubSeq(result, Len(result) - 1, Len(result))

\* SESSIONS[user_id] = result (app.py:255, 355, 374)
StoredResult(result) == result

\* an except branch that starts the session afresh
OnGraphErrorReset(sessions, u) == [sessions EXCEPT ![u] = [exists |-> TRUE, messages |-> <<>>]]

\* the except branch of app.py:293-296 leaves SESSIONS as it is
OnGraphError(sessions, u) == sessions

\* a GRAPH.invoke that never returns
StartGraphHung(p, messages, attempt) ==
    [owner |-> p, node |-> "hung", messages |-> add_messages(<<>>, messages),
     attempt |-> attempt, rounds |-> 0, final_prompt |-> NoPrompt]

\* GRAPH.invoke(SESSIONS[user_id]) starts: the graph runs on the session's
\* messages, from its entry node
StartGraph(p, messages, attempt) ==
    [owner |-> p, node |-> "chatbot", messages |-> add_messages(<<>>, messages),
     attempt |-> attempt, rounds |-> 0, final_prompt |-> NoPrompt]

Init ==
    /\ mode \in {"server", "cli"}
    /\ SESSIONS = [u \in SessionIds |-> NoSession]
    /\ pc = [p \in Handlers |-> "closed"]
    /\ uid = [p \in Handlers |-> "none"]
    /\ user_text = [p \in Handlers |-> <<>>]
    /\ sent = [p \in Handlers |-> <<>>]
    /\ nrecv = [p \in Handlers |-> 0]
    /\ dispatches = [p \in Handlers |-> 0]
    /\ graph = IdleGraph
    /\ inputs = [u \in SessionIds |-> <<>>]
    /\ tpc = "off"
    /\ location = <<>>
    /\ resolution = LocationResolution(<<>>, FALSE, FALSE)
    /\ tool_out = [notice |-> "none", shown |-> <<>>, lookups |-> <<>>]
    /\ cap = NoCall
    /\ synth = NoSynthesis
    /\ run = NoRun
    /\ SosOff

\* ws_chat up to its first receive: accept, create the session when the id
\* has none, send the welcome
Connect(c, u) ==
    /\ mode = "server"
    /\ pc[c] = "closed"
    /\ graph.owner = "none"
    /\ SESSIONS' = IF HasSession(u) THEN SESSIONS
                   ELSE [SESSIONS EXCEPT ![u] = Session(<<>>)]
    /\ inputs' = IF HasSession(u) THEN inputs ELSE [inputs EXCEPT ![u] = <<>>]
    /\ uid' = [uid EXCEPT ![c] = u]
    /\ sent' = [sent EXCEPT ![c] = <<Note("welcome")>>]
    /\ pc' = [pc EXCEPT ![c] = "recv"]
    /\ UNCHANGED <<mode, user_text, nrecv, dispatches, graph>>
    /\ UNCHANGED <<toolVars, sosVars>>

\* a text answered before line 242: blank, or an emergency keyword with a
\* fixed answer
WsShortCircuit(c, text) ==
    /\ mode = "server"
    /\ pc[c] = "recv"
    /\ graph.owner = "none"
    /\ TotalRecv < MaxTurns
    /\ Route(text) # "turn"
    /\ user_text' = [user_text EXCEPT ![c] = text]
    /\ nrecv' = [nrecv EXCEPT ![c] = @ + 1]
    /\ dispatches' = [dispatches EXCEPT ![c] = 0]
    /\ sent' = [sent EXCEPT ![c] = <<Note(Route(text))>>]
    /\ UNCHANGED <<mode, SESSIONS, pc, uid, graph, inputs>>
    /\ UNCHANGED <<toolVars, sosVars>>

\* a text that reaches line 242: appended to the session; with a progress
\* note the handler awaits the send, without one it runs the graph at once
WsTurn(c, text) ==
    /\ mode = "server"
    /\ pc[c] = "recv"
    /\ graph.owner = "none"
    /\ TotalRecv < MaxTurns
    /\ Route(text) = "turn"
    /\ HasSession(uid[c])
    /\ user_text' = [user_text EXCEPT ![c] = text]
    /\ nrecv' = [nrecv EXCEPT ![c] = @ + 1]
    /\ dispatches' = [dispatches EXCEPT ![c] = 0]
    /\ SESSIONS' = [SESSIONS EXCEPT ![uid[c]] =
                       Session(Append(@.messages, HumanMessage(text)))]
    /\ inputs' = [inputs EXCEPT ![uid[c]] = Append(@, text)]
    /\ IF Thinking(text) # "none"
       THEN /\ sent' = [sent EXCEPT ![c] = <<Note(Thinking(text))>>]
            /\ pc' = [pc EXCEPT ![c] = "invoke"]
            /\ graph' = graph
       ELSE /\ sent' = [sent EXCEPT ![c] = <<>>]
            /\ pc' = [pc EXCEPT ![c] = "graph"]
            /\ graph' = StartGraph(c, SESSIONS'[uid[c]].messages, 1)
    /\ UNCHANGED <<mode, uid>>
    /\ UNCHANGED <<toolVars, sosVars>>

\* line 242 when the id has no session any more: the KeyError reaches the
\* outer handler (app.py:303-308) and ws_chat returns
WsTurnNoSession(c, text) ==
    /\ mode = "server"
    /\ pc[c] = "recv"
    /\ graph.owner = "none"
    /\ TotalRecv < MaxTurns
    /\ Route(text) = "turn"
    /\ ~HasSession(uid[c])
    /\ user_text' = [user_text EXCEPT ![c] = text]
    /\ nrecv' = [nrecv EXCEPT ![c] = @ + 1]
    /\ dispatches' = [dispatches EXCEPT ![c] = 0]
    /\ sent' = [sent EXCEPT ![c] = <<Note("connection_issue")>>]
    /\ pc' = [pc EXCEPT ![c] = "closed"]
    /\ UNCHANGED <<mode, SESSIONS, uid, graph, inputs>>
    /\ UNCHANGED <<toolVars, sosVars>>

\* line 252 after the progress note was sent
WsInvoke(c) ==
    /\ pc[c] = "invoke"
    /\ graph.owner = "none"
    /\ HasSession(uid[c])
    /\ pc' = [pc EXCEPT ![c] = "graph"]
    /\ graph' = StartGraph(c, SESSIONS[uid[c]].messages, 1)
    /\ UNCHANGED <<mode, SESSIONS, uid, user_text, sent, nrecv, dispatches, inputs>>
    /\ UNCHANGED <<toolVars, sosVars>>

\* line 252 when the id has no session any more: the KeyError is caught at
\* line 293
WsInvokeNoSession(c) ==
    /\ pc[c] = "invoke"
    /\ graph.owner = "none"
    /\ ~HasSession(uid[c])
    /\ sent' = [sent EXCEPT ![c] = Append(@, Note("fallback_error"))]
    /\ pc' = [pc EXCEPT ![c] = "recv"]
    /\ UNCHANGED <<mode, SESSIONS, uid, user_text, nrecv, dispatches, graph, inputs>>
    /\ UNCHANGED <<toolVars, sosVars>>

\* a disconnect that empties SESSIONS
DeleteAllSessions(sessions, u) == [v \in DOMAIN sessions |-> NoSession]

\* a disconnect that leaves the session where it is
DeleteSessionKeep(sessions, u) == sessions

\* del SESSIONS[user_id] (app.py:301-302)
DeleteSession(sessions, u) == [sessions EXCEPT ![u] = NoSession]

\* receive_text raises WebSocketDisconnect (app.py:298-302): the session of
\* the id is deleted and ws_chat returns, its locals with it
WsDisconnect(c) ==
    /\ pc[c] = "recv"
    /\ graph.owner = "none"
    /\ SESSIONS' = DeleteSession(SESSIONS, uid[c])
    /\ inputs' = [inputs EXCEPT ![uid[c]] = <<>>]
    /\ pc' = [pc EXCEPT ![c] = "closed"]
    /\ uid' = [uid EXCEPT ![c] = "none"]
    /\ user_text' = [user_text EXCEPT ![c] = <<>>]
    /\ sent' = [sent EXCEPT ![c] = <<>>]
    /\ dispatches' = [dispatches EXCEPT ![c] = 0]
    /\ UNCHANGED <<mode, nrecv, graph>>
    /\ UNCHANGED <<toolVars, sosVars>>

\* the chatbot node and the conditional edge after it
ChatbotNode ==
    /\ graph.node = "chatbot"
    /\ \E o \in chatbot(graph.messages) :
          LET msgs == add_messages(o.state, o.update)
          IN  graph' = [graph EXCEPT !.messages = msgs,
                                     !.node = should_continue(msgs),
                                     !.final_prompt =
                                         IF Synthesizes(graph.messages)
                                         THEN SynthesisPrompt(graph.messages)
                                         ELSE @]
    /\ UNCHANGED <<mode, SESSIONS, pc, uid, user_text, sent, nrecv, dispatches, inputs>>
    /\ UNCHANGED <<toolVars, sosVars>>

\* the tools node and the edge back to chatbot
ToolsNode ==
    /\ graph.node = "tools"
    /\ graph' = [graph EXCEPT !.messages = add_messages(@, tool_node(@)),
                              !.node = "chatbot",
                              !.rounds = @ + 1]
    /\ dispatches' = [dispatches EXCEPT ![graph.owner] = @ + 1]
    /\ UNCHANGED <<mode, SESSIONS, pc, uid, user_text, sent, nrecv, inputs>>
    /\ UNCHANGED <<toolVars, sosVars>>

\* GRAPH.invoke raises in ws_chat (a model call, a lookup or the tool
\* dispatch failed): caught at line 293, the loop goes on
WsGraphRaise(c) ==
    /\ c \in Conns
    /\ graph.owner = c
    /\ graph.node \in {"chatbot", "tools"}
    /\ SESSIONS' = OnGraphError(SESSIONS, uid[c])
    /\ sent' = [sent EXCEPT ![c] = Append(@, Note("fallback_error"))]
    /\ pc' = [pc EXCEPT ![c] = "recv"]
    /\ graph' = IdleGraph
    /\ UNCHANGED <<mode, uid, user_text, nrecv, dispatches, inputs>>
    /\ UNCHANGED <<toolVars, sosVars>>

\* GRAPH.invoke returns in ws_chat (app.py:254-291)
WsGraphReturn(c) ==
    /\ c \in Conns
    /\ graph.owner = c
    /\ graph.node = "end"
    /\ IF graph.messages # <<>>
       THEN /\ SESSIONS' = [SESSIONS EXCEPT ![uid[c]] =
                               Session(StoredResult(graph.messages))]
            /\ sent' = [sent EXCEPT ![c] =
                           Append(@, WsReply(graph.messages, user_text[c]))]
       ELSE /\ SESSIONS' = SESSIONS
            /\ sent' = [sent EXCEPT ![c] = Append(@, Note("fallback_empty"))]
    /\ pc' = [pc EXCEPT ![c] = "recv"]
    /\ graph' = IdleGraph
    /\ UNCHANGED <<mode, uid, user_text, nrecv, dispatches, inputs>>
    /\ UNCHANGED <<toolVars, sosVars>>

\* run_cli up to its first prompt
CliStart ==
    /\ mode = "cli"
    /\ pc[Cli] = "closed"
    /\ SESSIONS' = IF HasSession(CliUser) THEN SESSIONS
                   ELSE [SESSIONS EXCEPT ![CliUser] = Session(<<>>)]
    /\ uid' = [uid EXCEPT ![Cli] = CliUser]
    /\ sent' = [sent EXCEPT ![Cli] = <<Note("banner")>>]
    /\ pc' = [pc EXCEPT ![Cli] = "recv"]
    /\ UNCHANGED <<mode, user_text, nrecv, dispatches, graph, inputs>>
    /\ UNCHANGED <<toolVars, sosVars>>

\* what run_cli does with the stripped line (app.py:329-343)
CliRoute(line) ==
    IF Lower(line) \in ExitWords THEN "farewell"
    ELSE IF Lower(line) = <<"s","o","s">> THEN "sos_result"
    ELSE IF line = <<>> THEN "cli_help"
    ELSE "turn"

\* exit, quit or bye: the loop ends
CliExit(text) ==
    /\ mode = "cli"
    /\ pc[Cli] = "recv"
    /\ TotalRecv < MaxTurns
    /\ CliRoute(Strip(text)) = "farewell"
    /\ user_text' = [user_text EXCEPT ![Cli] = Strip(text)]
    /\ nrecv' = [nrecv EXCEPT ![Cli] = @ + 1]
    /\ dispatches' = [dispatches EXCEPT ![Cli] = 0]
    /\ sent' = [sent EXCEPT ![Cli] = <<Note("farewell")>>]
    /\ pc' = [pc EXCEPT ![Cli] = "exited"]
    /\ UNCHANGED <<mode, SESSIONS, uid, graph, inputs>>
    /\ UNCHANGED <<toolVars, sosVars>>

\* "sos" (the alert workflow answers) or an empty line (the hint is printed)
CliShortCircuit(text) ==
    /\ mode = "cli"
    /\ pc[Cli] = "recv"
    /\ TotalRecv < MaxTurns
    /\ CliRoute(Strip(text)) \in {"sos_result", "cli_help"}
    /\ user_text' = [user_text EXCEPT ![Cli] = Strip(text)]
    /\ nrecv' = [nrecv EXCEPT ![Cli] = @ + 1]
    /\ dispatches' = [dispatches EXCEPT ![Cli] = 0]
    /\ sent' = [sent EXCEPT ![Cli] = <<Note(CliRoute(Strip(text)))>>]
    /\ UNCHANGED <<mode, SESSIONS, pc, uid, graph, inputs>>
    /\ UNCHANGED <<toolVars, sosVars>>

\* a line that reaches line 345: appended, and the graph is invoked
CliTurn(text) ==
    /\ mode = "cli"
    /\ pc[Cli] = "recv"
    /\ TotalRecv < MaxTurns
    /\ CliRoute(Strip(text)) = "turn"
    /\ user_text' = [user_text EXCEPT ![Cli] = Strip(text)]
    /\ nrecv' = [nrecv EXCEPT ![Cli] = @ + 1]
    /\ dispatches' = [dispatches EXCEPT ![Cli] = 0]
    /\ SESSIONS' = [SESSIONS EXCEPT ![CliUser] =
                       Session(Append(@.messages, HumanMessage(Strip(text))))]
    /\ inputs' = [inputs EXCEPT ![CliUser] = Append(@, Strip(text))]
    /\ sent' = [sent EXCEPT ![Cli] =
                   IF AnyIn(InfoWords, Lower(Strip(text)))
                   THEN <<Note("cli_thinking")>> ELSE <<>>]
    /\ pc' = [pc EXCEPT ![Cli] = "graph"]
    /\ graph' = StartGraph(Cli, SESSIONS'[CliUser].messages, 1)
    /\ UNCHANGED <<mode, uid>>
    /\ UNCHANGED <<toolVars, sosVars>>

\* GRAPH.invoke raises in run_cli: caught at line 394, the loop goes on
CliGraphRaise ==
    /\ graph.owner = Cli
    /\ graph.node \in {"chatbot", "tools"}
    /\ sent' = [sent EXCEPT ![Cli] = Append(@, Note("cli_error"))]
    /\ pc' = [pc EXCEPT ![Cli] = "recv"]
    /\ graph' = IdleGraph
    /\ UNCHANGED <<mode, SESSIONS, uid, user_text, nrecv, dispatches, inputs>>
    /\ UNCHANGED <<toolVars, sosVars>>

\* the first GRAPH.invoke of a line returns without any assistant text in
\* the history: the graph is invoked once more (app.py:369-372)
CliRetry ==
    /\ graph.owner = Cli
    /\ graph.node = "end"
    /\ graph.attempt = 1
    /\ LatestAiResponse(graph.messages) = 0
    /\ SESSIONS' = [SESSIONS EXCEPT ![CliUser] = Session(StoredResult(graph.messages))]
    /\ graph' = StartGraph(Cli, SESSIONS'[CliUser].messages, 2)
    /\ UNCHANGED <<mode, pc, uid, user_text, sent, nrecv, dispatches, inputs>>
    /\ UNCHANGED <<toolVars, sosVars>>

\* GRAPH.invoke returns in run_cli and the line is answered
CliGraphReturn ==
    /\ graph.owner = Cli
    /\ graph.node = "end"
    /\ graph.attempt = 2 \/ LatestAiResponse(graph.messages) > 0
    /\ SESSIONS' = [SESSIONS EXCEPT ![CliUser] = Session(StoredResult(graph.messages))]
    /\ LET i == LatestAiResponse(graph.messages)
       IN  sent' = [sent EXCEPT ![Cli] =
               Append(@, IF i = 0 THEN Note("cli_more_specific")
                         ELSE [kind |-> "reply",
                               text |-> IF graph.attempt = 1
                                        THEN Strip(graph.messages[i].content)
                                        ELSE graph.messages[i].content,
                               src |-> i])]
    /\ pc' = [pc EXCEPT ![Cli] = "recv"]
    /\ graph' = IdleGraph
    /\ UNCHANGED <<mode, uid, user_text, nrecv, dispatches, inputs>>
    /\ UNCHANGED <<toolVars, sosVars>>

\* KeyboardInterrupt at the prompt
CliInterrupt ==
    /\ mode = "cli"
    /\ pc[Cli] = "recv"
    /\ sent' = [sent EXCEPT ![Cli] = <<Note("goodbye")>>]
    /\ pc' = [pc EXCEPT ![Cli] = "exited"]
    /\ UNCHANGED <<mode, SESSIONS, uid, user_text, nrecv, dispatches, graph, inputs>>
    /\ UNCHANGED <<toolVars, sosVars>>

Next ==
    \/ \E c \in Conns, u \in UserIds : Connect(c, u)
    \/ \E c \in Conns, text \in UserTexts : WsShortCircuit(c, text)
    \/ \E c \in Conns, text \in UserTexts : WsTurn(c, text)
    \/ \E c \in Conns, text \in UserTexts : WsTurnNoSession(c, text)
    \/ \E c \in Conns : WsInvoke(c)
    \/ \E c \in Conns : WsInvokeNoSession(c)
    \/ \E c \in Conns : WsDisconnect(c)
    \/ ChatbotNode
    \/ ToolsNode
    \/ \E c \in Conns : WsGraphRaise(c)
    \/ \E c \in Conns : WsGraphReturn(c)
    \/ CliStart
    \/ \E text \in CliTexts : CliExit(text)
    \/ \E text \in CliTexts : CliShortCircuit(text)
    \/ \E text \in CliTexts : CliTurn(text)
    \/ CliGraphRaise
    \/ CliRetry
    \/ CliGraphReturn
    \/ CliInterrupt

Spec == Init /\ [][Next]_vars

-----------------------------------------------------------------------------
(* Tool runs: a tool function called with a location argument              *)

LocAlphabet == {"g", "o", "a", "G", " "}

LocProbes == { <<"k","e","r","a","l">>,
               <<"M","u","m","b","a","y">>,
               <<"H","i","m","a","c","h","a","l"," ","p","r","a","d","e","s","h">>,
               <<"z","z","z">> }

LocationInputs ==
    LocProbes \cup UNION {[1..k -> LocAlphabet] : k \in 0..MaxLocLen}

NoResolution == LocationResolution(<<>>, FALSE, FALSE)
NoOutput == [notice |-> "none", shown |-> <<>>, lookups |-> <<>>]

\* what a tool function gave back: an exception, or text whose head is the
\* failure marker U+274C ("cross"), the bytes of that marker read in another
\* encoding as places.py has them ("garbled"), or anything else ("data")
Raised == [raised |-> TRUE, head |-> "none"]
Text(head) == [raised |-> FALSE, head |-> head]

\* what the backing network call does: "timeout" and "conn_error" are raised
\* by the aiohttp request, "bad_status" is a non-2xx answer, "malformed" a
\* body response.json() cannot decode, "empty" a decoded body with no result
NetOutcomes == {"ok", "timeout", "conn_error", "bad_status", "malformed", "empty"}

NetRaises(net) == net \in {"timeout", "conn_error", "malformed"}

\* tools/weather.py: no try around the request
get_weather(configured, net) ==
    IF ~configured THEN Text("cross")
    ELSE IF NetRaises(net) THEN Raised
    ELSE IF net \in {"bad_status", "empty"} THEN Text("cross")
    ELSE Text("data")

\* tools/news.py: no try around the request
get_news(configured, net) ==
    IF ~configured THEN Text("cross")
    ELSE IF NetRaises(net) THEN Raised
    ELSE IF net \in {"bad_status", "empty"} THEN Text("cross")
    ELSE Text("data")

\* tools/maps.py: no try around the geocoding and directions requests
get_maps(configured, net) ==
    IF ~configured THEN Text("cross")
    ELSE IF NetRaises(net) THEN Raised
    ELSE IF net \in {"bad_status", "empty"} THEN Text("cross")
    ELSE Text("data")

\* tools/places.py: needs no key; no try around the requests; a non-2xx
\* answer is read as no result, and the failure text starts with the bytes
\* of the marker in another encoding
get_places(configured, net) ==
    IF NetRaises(net) THEN Raised
    ELSE IF net \in {"bad_status", "empty"} THEN Text("garbled")
    ELSE Text("data")

\* tools/images.py: the request is inside try / except Exception
get_images(configured, net) ==
    IF ~configured THEN Text("cross")
    ELSE IF net = "ok" THEN Text("data")
    ELSE Text("cross")

\* tools/booking.py: the request is inside try / except Exception
get_booking(configured, net) ==
    IF ~configured THEN Text("cross")
    ELSE IF net = "ok" THEN Text("data")
    ELSE Text("cross")

CapTools == {"weather", "places", "maps", "booking", "images", "news"}

Capability(tool, configured, net) ==
    CASE tool = "weather" -> get_weather(configured, net)
      [] tool = "places"  -> get_places(configured, net)
      [] tool = "maps"    -> get_maps(configured, net)
      [] tool = "booking" -> get_booking(configured, net)
      [] tool = "images"  -> get_images(configured, net)
      [] tool = "news"    -> get_news(configured, net)

InitTools ==
    /\ ChatOff
    /\ SosOff
    /\ synth = NoSynthesis
    /\ run = NoRun
    /\ resolution = NoResolution
    /\ tool_out = NoOutput
    /\ \/ /\ tpc = "call"
          /\ location \in LocationInputs
          /\ cap = NoCall
       \/ /\ tpc = "net"
          /\ location = <<>>
          /\ cap \in [tool : CapTools, configured : BOOLEAN, net : NetOutcomes,
                      raised : {FALSE}, head : {"none"}]

\* the normalizer applied to the argument
SpellCheck ==
    /\ tpc = "call"
    /\ resolution' = smart_spell_check_location(location, ConfidenceThreshold)
    /\ tpc' = "checked"
    /\ UNCHANGED <<location, tool_out, cap, synth, run>>
    /\ UNCHANGED <<chatVars, sosVars>>

\* the weather tool called with the argument
RunWeatherTool ==
    /\ tpc = "checked"
    /\ tool_out' = WeatherTool(location)
    /\ tpc' = "done"
    /\ UNCHANGED <<location, resolution, cap, synth, run>>
    /\ UNCHANGED <<chatVars, sosVars>>

\* a capability function awaited with some network behaviour
RunCapability ==
    /\ tpc = "net"
    /\ LET r == Capability(cap.tool, cap.configured, cap.net)
       IN  cap' = [cap EXCEPT !.raised = r.raised, !.head = r.head]
    /\ tpc' = "net_done"
    /\ UNCHANGED <<location, resolution, tool_out, synth, run>>
    /\ UNCHANGED <<chatVars, sosVars>>

NextTools == SpellCheck \/ RunWeatherTool \/ RunCapability

SpecTools == InitTools /\ [][NextTools]_vars
-----------------------------------------------------------------------------
(* Tool calls: the location tools of trip_agent.py called with arguments   *)

\* a call of a backing lookup with its positional arguments
Lookup(fn, args) == [fn |-> fn, args |-> args]

ToolOutput(prefix, shown, lookups, reply) ==
    [prefix |-> prefix, shown |-> shown, lookups |-> lookups, reply |-> reply]

\* the shared body, looking up the text as given when it asks "Did you mean"
LocatedCallAsGiven(fn, loc, rest, r) ==
    IF r.needs_confirmation
    THEN ToolOutput("did_you_mean", <<r.name>>,
                    <<Lookup(fn, <<loc>> \o rest)>>, "text")
    ELSE LET final_location == IF r.was_corrected THEN r.name ELSE loc
         IN  IF r.was_corrected /\ ~r.needs_confirmation
             THEN ToolOutput("showing", <<r.name>>,
                             <<Lookup(fn, <<final_location>> \o rest)>>, "text")
             ELSE ToolOutput("none", <<>>,
                             <<Lookup(fn, <<final_location>> \o rest)>>, "text")

\* the body shared by WeatherTool, PlacesTool, BookingTool, ImagesTool and
\* NewsTool after the normalizer returned r: the lookup fn is called with the
\* location and the arguments that follow it
LocatedCall(fn, loc, rest, r) ==
    IF r.needs_confirmation
    THEN ToolOutput("did_you_mean", <<r.name>>,
                    <<Lookup(fn, <<r.name>> \o rest)>>, "text")
    ELSE LET final_location == IF r.was_corrected THEN r.name ELSE loc
         IN  IF r.was_corrected /\ ~r.needs_confirmation
             THEN ToolOutput("showing", <<r.name>>,
                             <<Lookup(fn, <<final_location>> \o rest)>>, "text")
             ELSE ToolOutput("none", <<>>,
                             <<Lookup(fn, <<final_location>> \o rest)>>, "text")

WeatherCall(loc, r) == LocatedCall("get_weather", loc, <<>>, r)

PlacesTool(loc, place_type, r) == LocatedCall("get_places", loc, <<place_type>>, r)

ImagesTool(loc, r) == LocatedCall("get_images", loc, <<>>, r)

NewsTool(loc, r) == LocatedCall("get_news", loc, <<>>, r)

\* tools/booking.py, get_booking(location, place_type, budget_type) up to the
\* request: what it does with the arguments it receives
get_booking_request(loc, place_type, budget_type, configured) ==
    IF loc = <<>> THEN [reply |-> "ask_location", category |-> place_type]
    ELSE IF place_type = <<>> THEN [reply |-> "ask_type", category |-> place_type]
    ELSE IF ~configured THEN [reply |-> "not_configured", category |-> place_type]
    ELSE [reply |-> "query", category |-> place_type]

\* BookingTool: get_booking is called with (location, place_name, place_type)
\* by position
BookingTool(loc, place_name, place_type, configured, r) ==
    LET out == LocatedCall("get_booking", loc, <<place_name, place_type>>, r)
        args == out.lookups[1].args
        got == get_booking_request(args[1], args[2], args[3], configured)
    IN  [out EXCEPT !.reply = got.reply] @@ [category |-> got.category]

\* str.split(sep)
RECURSIVE SplitOn(_, _)
SplitOn(s, sep) ==
    LET at == {i \in 1..(Len(s) - Len(sep) + 1) : SubSeq(s, i, i + Len(sep) - 1) = sep}
    IN  IF at = {} THEN <<s>>
        ELSE LET i == CHOOSE k \in at : \A j \in at : k <= j
             IN  <<SubSeq(s, 1, i - 1)>> \o SplitOn(SubSeq(s, i + Len(sep), Len(s)), sep)

\* MapsTool: the origin and the destination parsed from the query, none for
\* a query without " to " in it
MapsEnds(query) ==
    LET query_lower == Strip(Lower(query))
        parts == SplitOn(query_lower, <<" ","t","o"," ">>)
    IN  IF ~Contains(query_lower, <<" ","t","o"," ">>) THEN <<>>
        ELSE <<Strip(parts[1]), Strip(parts[2])>>

\* MapsTool after the normalizer returned rs for the two ends; a query
\* without " to " in it is answered with the format hint
MapsTool(query, rs) ==
    LET ends == MapsEnds(query)
    IN  IF ends = <<>>
        THEN ToolOutput("none", <<>>, <<>>, "format")
        ELSE LET origin == ends[1]
                 destination == ends[2]
                 o == rs[1]
                 d == rs[2]
                 final_origin == IF o.was_corrected THEN o.name ELSE origin
                 final_dest == IF d.was_corrected THEN d.name ELSE destination
             IN  IF o.needs_confirmation \/ d.needs_confirmation
                 THEN ToolOutput("did_you_mean", <<o.name, d.name>>,
                                 <<Lookup("get_maps", <<o.name, d.name>>)>>, "text")
                 ELSE IF \/ o.was_corrected /\ ~o.needs_confirmation
                         \/ d.was_corrected /\ ~d.needs_confirmation
                 THEN ToolOutput("showing", <<final_origin, final_dest>>,
                                 <<Lookup("get_maps", <<final_origin, final_dest>>)>>, "text")
                 ELSE ToolOutput("none", <<>>,
                                 <<Lookup("get_maps", <<final_origin, final_dest>>)>>, "text")

LocationTools == {"WeatherTool", "PlacesTool", "ImagesTool", "NewsTool"}

PlaceTypes == { <<>>, <<"h","o","t","e","l">>, <<"r","e","s","o","r","t">> }
PlaceNamesAsked == { <<>>, <<"T","a","j">> }

MapEnds == { <<"D","e","l","h","i">>, <<"g","a","o">>, <<"z","z","z">>,
             <<"f","r","o","m"," ","m","u","m","b","a","i">> }

MapQueries ==
    { o \o <<" ","t","o"," ">> \o d : o \in MapEnds, d \in MapEnds }
       \cup MapEnds
       \cup { <<" ","G","o","a"," ","T","O"," ","a","g","r","a"," ","t","o"," ","z","z","z">>,
              <<"g","o","a"," ","t","o"," ">> }

\* the location arguments tried: the probes, two misspellings the normalizer
\* only suggests a name for, and every shorter text over the alphabet
RunLocations ==
    LocProbes \cup { <<"g","a","o">>, <<"g"," ","a">> }
       \cup UNION {[1..k -> LocAlphabet] : k \in 0..(MaxLocLen - 1)}

BookingLocations == { <<>>, <<"g","o","a">>, <<"g","a","o">>, <<"z","z","z">> }

RunInputs ==
    [pc : {"call"}, tool : LocationTools, location : RunLocations,
     place_name : {<<>>}, place_type : {<<"t","o","u","r","i","s","m">>},
     configured : {TRUE}, resolutions : {<<>>}, out : {NoRun.out}]
    \cup
    [pc : {"call"}, tool : {"BookingTool"}, location : BookingLocations,
     place_name : PlaceNamesAsked, place_type : PlaceTypes,
     configured : BOOLEAN, resolutions : {<<>>}, out : {NoRun.out}]
    \cup
    [pc : {"call"}, tool : {"MapsTool"}, location : MapQueries,
     place_name : {<<>>}, place_type : {<<>>},
     configured : {TRUE}, resolutions : {<<>>}, out : {NoRun.out}]

\* the texts a tool hands to the normalizer
NormalizerArgs(r) ==
    IF r.tool = "MapsTool" THEN MapsEnds(r.location) ELSE <<r.location>>

\* the tool function after its normalizer calls
ToolCall(r) ==
    CASE r.tool = "WeatherTool" -> WeatherCall(r.location, r.resolutions[1])
      [] r.tool = "PlacesTool"  -> PlacesTool(r.location, r.place_type, r.resolutions[1])
      [] r.tool = "ImagesTool"  -> ImagesTool(r.location, r.resolutions[1])
      [] r.tool = "NewsTool"    -> NewsTool(r.location, r.resolutions[1])
      [] r.tool = "MapsTool"    -> MapsTool(r.location, r.resolutions)
      [] r.tool = "BookingTool" ->
            BookingTool(r.location, r.place_name, r.place_type, r.configured,
                        r.resolutions[1])

\* the tool is called and runs the normalizer on its location texts
NormalizeArgs ==
    /\ run.pc = "call"
    /\ LET args == NormalizerArgs(run)
       IN  run' = [run EXCEPT
                     !.pc = "checked",
                     !.resolutions =
                         [k \in 1..Len(args) |->
                             smart_spell_check_location(args[k], ConfidenceThreshold)]]
    /\ UNCHANGED <<tpc, location, resolution, tool_out, cap, synth>>
    /\ UNCHANGED <<chatVars, sosVars>>

\* the tool makes its lookup and returns
RunTool ==
    /\ run.pc = "checked"
    /\ run' = [run EXCEPT !.pc = "done", !.out = ToolCall(run)]
    /\ UNCHANGED <<tpc, location, resolution, tool_out, cap, synth>>
    /\ UNCHANGED <<chatVars, sosVars>>

\* tools/images.py: what the image service does with a request: it answers
\* with a status (and, with 200, a list of results), or the request raises
ResultLists(items) == { <<>>, items }

Responses(items) ==
    [status : {"200"}, results : ResultLists(items)]
    \cup [status : {"401", "403", "500", "timeout", "error"}, results : {<<>>}]

SearchReply(reply, results, queries) ==
    [reply |-> reply, results |-> results, queries |-> queries]

\* get_images without the retry's results being taken
get_images_no_retry(loc, configured, first, retry) ==
    LET search_query == Strip(loc)
        words == Split(search_query)
        retried == first.results = <<>> /\ Len(words) > 1
        queries == IF retried THEN <<search_query, words[Len(words)]>>
                   ELSE <<search_query>>
    IN  IF ~configured THEN SearchReply("not_configured", <<>>, <<>>)
        ELSE IF first.status \in {"timeout", "error"}
        THEN SearchReply(first.status, <<>>, <<search_query>>)
        ELSE IF first.status = "401" THEN SearchReply("auth", <<>>, <<search_query>>)
        ELSE IF first.status = "403" THEN SearchReply("rate", <<>>, <<search_query>>)
        ELSE IF first.status # "200" THEN SearchReply("unavailable", <<>>, <<search_query>>)
        ELSE IF retried /\ retry.status \in {"timeout", "error"}
        THEN SearchReply(retry.status, <<>>, queries)
        ELSE IF first.results = <<>> THEN SearchReply("no_images", <<>>, queries)
        ELSE SearchReply("images", SubSeq(first.results, 1, Min2(6, Len(first.results))), queries)

\* get_images: the search, the retry with the last word when a query of more
\* than one word found nothing, and the reply
get_images_search(loc, configured, first, retry) ==
    LET search_query == Strip(loc)
        words == Split(search_query)
        retried == first.results = <<>> /\ Len(words) > 1
        queries == IF retried THEN <<search_query, words[Len(words)]>>
                   ELSE <<search_query>>
        results == IF retried /\ retry.status = "200" THEN retry.results
                   ELSE first.results
    IN  IF ~configured THEN SearchReply("not_configured", <<>>, <<>>)
        ELSE IF first.status \in {"timeout", "error"}
        THEN SearchReply(first.status, <<>>, <<search_query>>)
        ELSE IF first.status = "401" THEN SearchReply("auth", <<>>, <<search_query>>)
        ELSE IF first.status = "403" THEN SearchReply("rate", <<>>, <<search_query>>)
        ELSE IF first.status # "200" THEN SearchReply("unavailable", <<>>, <<search_query>>)
        ELSE IF retried /\ retry.status \in {"timeout", "error"}
        THEN SearchReply(retry.status, <<>>, queries)
        ELSE IF results = <<>> THEN SearchReply("no_images", <<>>, queries)
        ELSE SearchReply("images", SubSeq(results, 1, Min2(6, Len(results))), queries)

ImageQueries ==
    { <<>>, <<"g","o","a">>, <<"g","o","a"," ","b","e","a","c","h">>,
      <<" ","t","a","j"," "," ","m","a","h","a","l"," ">> }

ImageSearches ==
    [pc : {"search"}, tool : {"get_images"}, location : ImageQueries,
     configured : BOOLEAN,
     first : Responses(<<"i1">>), retry : Responses(<<"r1", "r2">>),
     out : {SearchReply("none", <<>>, <<>>)}]

\* get_images awaited with what the service does
RunImageSearch ==
    /\ run.pc = "search"
    /\ run.tool = "get_images"
    /\ run' = [run EXCEPT
                 !.pc = "done",
                 !.out = get_images_search(run.location, run.configured,
                                           run.first, run.retry)]
    /\ UNCHANGED <<tpc, location, resolution, tool_out, cap, synth>>
    /\ UNCHANGED <<chatVars, sosVars>>

\* tools/news.py, get_news: the search, the retry with the simpler query when
\* it found nothing, and the reply; nothing catches a request that raises
get_news_search(loc, configured, first, retry) ==
    LET query == loc \o <<" ","A","N","D"," ","(","t","r","a","v","e","l"," ","O","R"," ","t","o","u","r","i","s","m"," ","O","R"," ","t","o","u","r","i","s","t"," ","O","R"," ","h","o","t","e","l"," ","O","R"," ","a","t","t","r","a","c","t","i","o","n"," ","O","R"," ","f","e","s","t","i","v","a","l"," ","O","R"," ","d","e","s","t","i","n","a","t","i","o","n",")">>
        simple == loc \o <<" ","t","r","a","v","e","l">>
        retried == first.results = <<>>
        queries == IF retried THEN <<query, simple>> ELSE <<query>>
        articles == IF retried /\ retry.status = "200" THEN retry.results
                    ELSE first.results
    IN  IF ~configured THEN SearchReply("not_configured", <<>>, <<>>)
        ELSE IF first.status \in {"timeout", "error"}
        THEN SearchReply("raised", <<>>, <<query>>)
        ELSE IF first.status # "200" THEN SearchReply("unavailable", <<>>, <<query>>)
        ELSE IF retried /\ retry.status \in {"timeout", "error"}
        THEN SearchReply("raised", <<>>, queries)
        ELSE IF articles = <<>> THEN SearchReply("no_news", <<>>, queries)
        ELSE SearchReply("news", SubSeq(articles, 1, Min2(6, Len(articles))), queries)

NewsSearches ==
    [pc : {"search"}, tool : {"get_news"}, location : ImageQueries,
     configured : BOOLEAN,
     first : Responses(<<"a1">>), retry : Responses(<<"b1", "b2">>),
     out : {SearchReply("none", <<>>, <<>>)}]

\* get_news awaited with what the service does
RunNewsSearch ==
    /\ run.pc = "search"
    /\ run.tool = "get_news"
    /\ run' = [run EXCEPT
                 !.pc = "done",
                 !.out = get_news_search(run.location, run.configured,
                                         run.first, run.retry)]
    /\ UNCHANGED <<tpc, location, resolution, tool_out, cap, synth>>
    /\ UNCHANGED <<chatVars, sosVars>>

\* tools/places.py, get_places: the box is tried at four scales
scales_four == <<10, 18, 35, 50>>

\* tools/places.py, get_places: the scales of the box, in tenths
scales == <<10, 18, 35>>

\* what a geocode request does: it raises, finds nothing, or finds the place
GeocodeOutcomes == {"raise", "none", "found"}

\* what a list request does: it raises, or returns this many named places
\* (none is returned as None)
ListOutcomes == {"raise", "0", "1", "3"}

Count(outcome) == CASE outcome = "1" -> 1 [] outcome = "3" -> 3 [] OTHER -> 0

PlacesSearches ==
    [pc : {"start"}, tool : {"get_places"},
     location : { <<>>, <<" ">>, <<"g","o","a">> },
     k : {0}, places_result : {0}, requests : {<<>>}, reply : {"none"}]

\* get_places ended: the text it returns, or the exception
PlacesEnd(r, reply) == [r EXCEPT !.pc = "done", !.reply = reply]

\* get_places: the text returned for the places found
PlacesReply(n) == IF n = 0 THEN "none_found" ELSE "data"

\* get_places: a blank location is answered at once
PlacesStart ==
    /\ run.tool = "get_places"
    /\ run.pc = "start"
    /\ run' = IF Strip(run.location) = <<>>
              THEN PlacesEnd(run, "invalid")
              ELSE [run EXCEPT !.pc = "geocode"]
    /\ UNCHANGED <<tpc, location, resolution, tool_out, cap, synth>>
    /\ UNCHANGED <<chatVars, sosVars>>

\* get_places: geocode_location
PlacesGeocode(outcome) ==
    /\ run.tool = "get_places"
    /\ run.pc = "geocode"
    /\ LET r == [run EXCEPT !.requests = Append(@, "geocode")]
       IN  run' = CASE outcome = "raise" -> PlacesEnd(r, "raised")
                    [] outcome = "none"  -> [r EXCEPT !.pc = "fallback"]
                    [] outcome = "found" -> [r EXCEPT !.pc = "overpass", !.k = 1]
    /\ UNCHANGED <<tpc, location, resolution, tool_out, cap, synth>>
    /\ UNCHANGED <<chatVars, sosVars>>

\* get_places: one round of the loop over the scales, overpass_search on the
\* box at scale k
PlacesOverpass(outcome) ==
    /\ run.tool = "get_places"
    /\ run.pc = "overpass"
    /\ LET r == [run EXCEPT !.requests = Append(@, "overpass")]
           n == Count(outcome)
       IN  run' = IF outcome = "raise" THEN PlacesEnd(r, "raised")
                  ELSE IF n >= 3
                  THEN [r EXCEPT !.places_result = n, !.pc = "fallback"]
                  ELSE [r EXCEPT
                          !.places_result = IF n > 0 /\ @ = 0 THEN n ELSE @,
                          !.k = @ + 1,
                          !.pc = IF run.k >= Len(scales) THEN "fallback" ELSE "overpass"]
    /\ UNCHANGED <<tpc, location, resolution, tool_out, cap, synth>>
    /\ UNCHANGED <<chatVars, sosVars>>

\* get_places: with fewer than three places, nominatim_search_named and the
\* names it adds; then the reply
PlacesFallback(outcome) ==
    /\ run.tool = "get_places"
    /\ run.pc = "fallback"
    /\ IF run.places_result >= 3
       THEN /\ outcome = "0"
            /\ run' = PlacesEnd(run, PlacesReply(run.places_result))
       ELSE LET r == [run EXCEPT !.requests = Append(@, "nominatim")]
                n == run.places_result + Count(outcome)
            IN  run' = IF outcome = "raise" THEN PlacesEnd(r, "raised")
                       ELSE PlacesEnd([r EXCEPT !.places_result = n], PlacesReply(n))
    /\ UNCHANGED <<tpc, location, resolution, tool_out, cap, synth>>
    /\ UNCHANGED <<chatVars, sosVars>>

InitRuns ==
    /\ ChatOff
    /\ SosOff
    /\ tpc = "off"
    /\ location = <<>>
    /\ resolution = NoResolution
    /\ tool_out = NoOutput
    /\ cap = NoCall
    /\ synth = NoSynthesis
    /\ run \in RunInputs \cup ImageSearches

NextRuns == NormalizeArgs \/ RunTool \/ RunImageSearch

SpecRuns == InitRuns /\ [][NextRuns]_vars

\* the lookups that issue requests, each awaited to its end
InitLookups ==
    /\ ChatOff
    /\ SosOff
    /\ tpc = "off"
    /\ location = <<>>
    /\ resolution = NoResolution
    /\ tool_out = NoOutput
    /\ cap = NoCall
    /\ synth = NoSynthesis
    /\ run \in {r \in ImageSearches \cup NewsSearches :
                    r.configured /\ r.location = <<"g","o","a"," ","b","e","a","c","h">>}
               \cup PlacesSearches

NextLookups ==
    \/ RunImageSearch
    \/ RunNewsSearch
    \/ PlacesStart
    \/ \E outcome \in GeocodeOutcomes : PlacesGeocode(outcome)
    \/ \E outcome \in ListOutcomes : PlacesOverpass(outcome)
    \/ \E outcome \in ListOutcomes : PlacesFallback(outcome)

SpecLookups == InitLookups /\ [][NextLookups]_vars /\ WF_vars(NextLookups)

-----------------------------------------------------------------------------
(* Emergency alerts (tools/sos.py, db/mongo.py, the /api/sos and           *)
(* /api/contacts endpoints of app.py)                                      *)
(*                                                                         *)
(* tools/sos.py as stored spells its special names with one underscore on  *)
(* each side (_file_ at line 13, _post_init_ at 66 and 88, _init_ at 101   *)
(* and 200, _name_ at 409), so importing it stops at line 13 with a        *)
(* NameError and neither trip_agent.py nor app.py can start.  Every other  *)
(* part of this model describes the running application, which exists only *)
(* with these names spelled __file__, __post_init__, __init__ and          *)
(* __name__; the alert functions are modelled under that same reading.     *)
(*                                                                         *)
(* The glyphs of the texts are written as ASCII characters: "#" for the    *)
(* cross mark, "$" for the check mark, "^" for the siren.                  *)

DigitChars == <<"0","1","2","3","4","5","6","7","8","9">>

IsDigit(c) == \E k \in 1..Len(DigitChars) : DigitChars[k] = c

\* str(k) for a natural number
RECURSIVE Str(_)
Str(k) ==
    IF k < Len(DigitChars) THEN <<DigitChars[k + 1]>>
    ELSE Str(k \div Len(DigitChars)) \o <<DigitChars[(k % Len(DigitChars)) + 1]>>

\* sep.join(parts)
RECURSIVE Join(_, _)
Join(sep, parts) ==
    IF parts = <<>> THEN <<>>
    ELSE IF Len(parts) = 1 THEN parts[1]
    ELSE parts[1] \o sep \o Join(sep, Tail(parts))

\* a normalization that puts +91 before whatever it is given
_normalize_prepend(number) ==
    <<"+","9","1">> \o SelectSeq(number, LAMBDA c : IsDigit(c) \/ c = "+")

\* Contact._normalize_number
_normalize_number(number) ==
    LET clean == SelectSeq(number, LAMBDA c : IsDigit(c) \/ c = "+")
    IN  IF StartsWith(clean, <<"+","9","1">>) THEN clean
        ELSE IF StartsWith(clean, <<"9","1">>) /\ Len(clean) > 10 THEN <<"+">> \o clean
        ELSE IF Len(clean) = 10 THEN <<"+","9","1">> \o clean
        ELSE IF StartsWith(clean, <<"+">>) THEN clean
        ELSE <<"+","9","1">> \o clean

\* a Contact whose number is kept as given
ContactAsGiven(name, number, relation) ==
    [name |-> name, number |-> number, relation |-> relation]

\* Contact(name, number, relation): the dataclass with its __post_init__
Contact(name, number, relation) ==
    [name |-> name, number |-> _normalize_number(number), relation |-> relation]

\* Contact(**d): the values of the dict d by keyword
ContactFromDict(d) == Contact(d.name, d.number, d.relation)

\* Contact(*d): iterating a dict yields its keys, in insertion order
ContactFromKeys(d) == Contact(<<"n","a","m","e">>, <<"n","u","m","b","e","r">>, <<"r","e","l","a","t","i","o","n">>)

\* the contact data a caller may pass ({"name":..., "number":..., "relation":...})
ContactData ==
    { [name |-> <<"A","n","u">>, number |-> <<"9","8","7","6","5","4","3","2","1","0">>, relation |-> <<"k","i","n">>],
      [name |-> <<"B","e","n">>, number |-> <<"+","9","1"," ","9","8","7","6","5"," ","4","3","2","1","0">>, relation |-> <<"k","i","n">>] }

\* most contacts held for one user id in the contacts collection
MaxContacts == 2

\* what a call to the database does
DbOutcomes == {"ok", "error"}

\* what reading or writing emergency_contacts.json does
FileOutcomes == {"ok", "error"}

\* what kit.sendwhatmsg_instantly does: it returns, or raises with a message,
\* or raises with an empty message
SendOutcomes == {"ok", "raise", "raise_blank"}

\* str(e) of the exception a send raised
ErrorText(outcome) == IF outcome = "raise" THEN <<"n","o"," ","b","r","o","w","s","e","r">> ELSE <<>>

\* None as an optional text
Absent == <<"None">>

\* not x, for an optional text
Falsy(x) == x = Absent \/ x = <<>>

\* datetime.now().strftime("%Y-%m-%d %H:%M:%S") at clock value t
Stamp(t) == <<"T">> \o Str(t)

\* an SOSMessage left without the time of its creation
SOSMessageUnstamped(content, loc, timestamp, now) ==
    [content |-> content, location |-> loc, timestamp |-> timestamp]

\* SOSMessage(content, location, timestamp) constructed at clock value now:
\* the dataclass with its __post_init__
SOSMessage(content, loc, timestamp, now) ==
    [content |-> content, location |-> loc,
     timestamp |-> IF Falsy(timestamp) THEN Stamp(now) ELSE timestamp]

\* MessageComposer.create_sos_message
create_sos_message(user_message, loc, now) ==
    SOSMessage(IF Falsy(user_message) THEN <<"^"," ","E","M","E","R","G","E","N","C","Y","!"," ","I"," ","n","e","e","d"," ","i","m","m","e","d","i","a","t","e"," ","h","e","l","p",".">>
               ELSE user_message,
               loc, Absent, now)

\* MessageComposer.format_whatsapp_message: the parts of the text that vary,
\* the location line left out when there is no location
format_whatsapp_message(sos_message, contact) ==
    [content |-> sos_message.content,
     time |-> sos_message.timestamp,
     name |-> contact.name,
     relation |-> contact.relation,
     location |-> IF Falsy(sos_message.location) THEN <<>> ELSE sos_message.location]

\* the calls of trigger_sos: sos_api passes a location and no message,
\* SOSTriggerTool passes what the model gave it, "" turned into None
TriggerCalls ==
    { [via |-> "api", user_message |-> Absent, user_location |-> <<"L","a","t",":"," ","1","0",","," ","L","o","n",":"," ","7","6">>],
      [via |-> "tool", user_message |-> Absent, user_location |-> Absent],
      [via |-> "tool", user_message |-> <<"l","o","s","t">>, user_location |-> <<"M","u","n","n","a","r">>] }

\* SendResult
SendResult(contact, status, method, error_message) ==
    [contact |-> contact, status |-> status, method |-> method,
     error_message |-> error_message]

\* None as an error_message
NoError == <<"None">>

\* WhatsAppSender.send
WhatsAppSender_send(contact, available, outcome) ==
    IF ~available THEN SendResult(contact.name, "success", "simulated", NoError)
    ELSE IF outcome = "ok" THEN SendResult(contact.name, "success", "pywhatkit", NoError)
    ELSE SendResult(contact.name, "failed", "whatsapp", ErrorText(outcome))

\* ContactsRepository.load: [] when the file is absent or unreadable
ContactsRepository_load(file, outcome) ==
    IF ~file.exists \/ outcome = "error" THEN <<>>
    ELSE [j \in 1..Len(file.contacts) |-> ContactFromDict(file.contacts[j])]

\* trigger_sos: the contacts of the primary store, [] when the call fails
PrimaryContacts(records, outcome) ==
    IF outcome = "error" THEN <<>>
    ELSE [j \in 1..Len(records) |-> ContactFromDict(records[j])]

\* a local file read on every trigger
AlwaysLocal(contacts_list) == TRUE

\* trigger_sos: the local file is read when nothing came from the primary store
NeedsLocal(contacts_list) == contacts_list = <<>>

\* trigger_sos: with no contact at all it returns at once
NoContactsAtAll(contacts_list) == contacts_list = <<>>

\* trigger_sos: the text returned when there is no contact
NoContactsText ==
    <<"#"," ","N","o"," ","e","m","e","r","g","e","n","c","y"," ","c","o","n","t","a","c","t","s"," ","f","o","u","n","d","."," ","P","l","e","a","s","e"," ","a","d","d"," ","c","o","n","t","a","c","t","s"," ","f","i","r","s","t"," ","u","s","i","n","g"," ","t","h","e"," ","S","e","t","u","p"," ","S","O","S"," ","b","u","t","t","o","n",".">>

\* a loop that a failed result ends
LoopStopsOnFailure(i, n, status) == i < n /\ status = "success"

\* trigger_sos: whether the loop goes on to the next contact after a result
LoopContinues(i, n, status) == i < n

\* success_count taken as the number of results
SuccessCountAll(results) == Len(results)

\* trigger_sos: success_count
SuccessCount(results) ==
    Cardinality({j \in 1..Len(results) : results[j].status = "success"})

\* trigger_sos: one summary line
SummaryLine(r) ==
    IF r.status = "success" THEN <<"$"," ">> \o r.contact
    ELSE <<"#"," ">> \o r.contact \o <<" ","-"," ">> \o
         (IF r.error_message = NoError \/ r.error_message = <<>>
          THEN <<"F","a","i","l","e","d">> ELSE r.error_message)

\* trigger_sos: the summary it returns
Summary(results) ==
    LET lines == [j \in 1..Len(results) |-> SummaryLine(results[j])]
    IN  [kind |-> "summary",
         k |-> SuccessCount(results),
         n |-> Len(results),
         lines |-> lines,
         text |-> <<"^"," ","S","O","S"," ","A","l","e","r","t"," ","R","e","s","u","l","t","s"," ","(">> \o Str(SuccessCount(results)) \o <<"/">>
                  \o Str(Len(results)) \o <<" ","s","e","n","t",")">> \o <<"\n">> \o Join(<<"\n">>, lines)]

\* the summary of an empty round in place of the early return
EmptySummary == Summary(<<>>)

NoContactsResult ==
    [kind |-> "no_contacts", k |-> 0, n |-> 0, lines |-> <<>>, text |-> NoContactsText]

\* sos_api: the status of the response for the text trigger_sos returned
SosApiStatus(text) ==
    IF Contains(text, <<"N","o"," ","e","m","e","r","g","e","n","c","y"," ","c","o","n","t","a","c","t","s"," ","f","o","u","n","d">>) THEN "error"
    ELSE IF Contains(Lower(text), <<"s","e","n","t">>) \/ Contains(Lower(text), <<"s","u","c","c","e","s","s">>)
         THEN "success"
    ELSE "partial"

\* the status a finished trigger_sos call is answered with
StatusFor(via, text) == IF via = "api" THEN SosApiStatus(text) ELSE "none"

\* the dict stored for a contact ({"name":..., "number":..., "relation":...})
ContactRecord(contact) ==
    [name |-> contact.name, number |-> contact.number, relation |-> contact.relation]

\* what a registration returned
Registration(kind, user, primary_failed, local_attempted, local_written, text) ==
    [kind |-> kind, user |-> user, primary_failed |-> primary_failed,
     local_attempted |-> local_attempted, local_written |-> local_written,
     text |-> text, raised |-> FALSE, via |-> "none", status |-> "none",
     given |-> <<>>]

\* add_contact (app.py): the status of the response, "error" only when
\* add_single_contact raised
ContactsApiStatus(raised) == IF raised THEN "error" ELSE "success"

\* add_single_contact (the definition at the end of tools/sos.py, which
\* replaces the one at its head): one write to the primary store; called by
\* add_contact (app.py) or by SOSAddContactTool
AddSingleContact(via, u, d, outcome) ==
    /\ outcome = "ok" => Len(primary[u]) < MaxContacts
    /\ primary' = IF outcome = "ok"
                  THEN [primary EXCEPT ![u] = Append(@, ContactRecord(ContactFromDict(d)))]
                  ELSE primary
    /\ reg' = [Registration("single", u, outcome = "error", FALSE, FALSE,
                            IF outcome = "ok" THEN "added" ELSE "failed_to_add")
                EXCEPT !.via = via,
                       !.status = IF via = "api" THEN ContactsApiStatus(FALSE)
                                  ELSE "none"]
    /\ UNCHANGED <<local_file, sos, phone>>
    /\ UNCHANGED <<chatVars, toolVars>>

\* SOSSystem.save_contacts with a user id: both contacts to the primary
\* store, and the pair to the local file as soon as one write fails
SaveContacts(u, d1, d2, o1, o2, lo) ==
    LET contacts == <<ContactFromKeys(d1), ContactFromKeys(d2)>>
        written == IF o1 = "error" THEN <<>>
                   ELSE IF o2 = "error" THEN <<ContactRecord(contacts[1])>>
                   ELSE <<ContactRecord(contacts[1]), ContactRecord(contacts[2])>>
        failed == o1 = "error" \/ o2 = "error"
    IN  /\ Len(primary[u]) + Len(written) <= MaxContacts
        /\ o1 = "error" => o2 = "error"
        /\ ~failed => lo = "ok"
        /\ primary' = [primary EXCEPT ![u] = @ \o written]
        /\ local_file' = IF failed /\ lo = "ok"
                         THEN [exists |-> TRUE,
                               contacts |-> <<ContactRecord(contacts[1]),
                                              ContactRecord(contacts[2])>>]
                         ELSE local_file
        /\ reg' = [Registration("pair", u, failed, failed, failed /\ lo = "ok",
                                IF ~failed THEN "saved_to_account"
                                ELSE IF lo = "ok" THEN "saved_locally"
                                ELSE "failed_to_save")
                    EXCEPT !.given = <<d1, d2>>]
        /\ UNCHANGED <<sos, phone>>
        /\ UNCHANGED <<chatVars, toolVars>>

\* trigger_sos is called: by sos_api (app.py), or by SOSTriggerTool
TriggerStart(call, u, available) ==
    /\ sos.pc = "idle"
    /\ sos' = [NoTrigger EXCEPT !.pc = "load_primary", !.via = call.via, !.user = u,
                                !.whatsapp = available,
                                !.user_message = call.user_message,
                                !.user_location = call.user_location,
                                !.clock = 1]
    /\ UNCHANGED <<primary, local_file, reg, phone>>
    /\ UNCHANGED <<chatVars, toolVars>>

\* trigger_sos: await mongo_list_contacts(user_id), any exception swallowed;
\* with contacts in hand the message is created (sos.py:265)
LoadPrimary(outcome) ==
    /\ sos.pc = "load_primary"
    /\ LET records == primary[sos.user]
           contacts_list == PrimaryContacts(records, outcome)
       IN  sos' = [sos EXCEPT
                     !.primary_load = IF outcome = "error" THEN "error"
                                      ELSE IF records = <<>> THEN "empty" ELSE "ok",
                     !.contacts_list = contacts_list,
                     !.clock = @ + 1,
                     !.created = IF NeedsLocal(contacts_list) THEN @ ELSE sos.clock + 1,
                     !.message = IF NeedsLocal(contacts_list) THEN @
                                 ELSE create_sos_message(sos.user_message,
                                                         sos.user_location, sos.clock + 1),
                     !.pc = IF NeedsLocal(contacts_list) THEN "load_local"
                            ELSE "dispatch"]
    /\ UNCHANGED <<primary, local_file, reg, phone>>
    /\ UNCHANGED <<chatVars, toolVars>>

\* trigger_sos: self.contacts_repo.load(), and the return when there is still
\* no contact
LoadLocal(outcome) ==
    /\ sos.pc = "load_local"
    /\ ~local_file.exists => outcome = "ok"
    /\ LET contacts_list == ContactsRepository_load(local_file, outcome)
           none == NoContactsAtAll(contacts_list)
       IN  sos' = [sos EXCEPT
                     !.local_load = IF ~local_file.exists THEN "absent"
                                    ELSE IF outcome = "error" THEN "error" ELSE "ok",
                     !.contacts_list = contacts_list,
                     !.clock = @ + 1,
                     !.created = IF none THEN @ ELSE sos.clock + 1,
                     !.message = IF none THEN @
                                 ELSE create_sos_message(sos.user_message,
                                                         sos.user_location, sos.clock + 1),
                     !.pc = IF none THEN "returned" ELSE "dispatch",
                     !.result = IF none THEN NoContactsResult ELSE @,
                     !.status = IF none THEN StatusFor(sos.via, NoContactsText) ELSE @]
    /\ UNCHANGED <<primary, local_file, reg, phone>>
    /\ UNCHANGED <<chatVars, toolVars>>

\* trigger_sos: one round of the loop over the contacts, the two seconds of
\* sleep after it included
Dispatch(outcome) ==
    /\ sos.pc = "dispatch"
    /\ ~sos.whatsapp => outcome = "ok"
    /\ LET n == Len(sos.contacts_list)
           contact == sos.contacts_list[sos.i + 1]
           result == WhatsAppSender_send(contact, sos.whatsapp, outcome)
           formatted_message == format_whatsapp_message(sos.message, contact)
       IN  sos' = [sos EXCEPT
                     !.i = @ + 1,
                     !.clock = @ + 1,
                     !.sends = Append(@, [contact |-> contact.name,
                                          number |-> contact.number,
                                          message |-> formatted_message,
                                          outcome |-> outcome]),
                     !.results = Append(@, result),
                     !.pc = IF LoopContinues(sos.i + 1, n, result.status)
                            THEN "dispatch" ELSE "summarize"]
    /\ UNCHANGED <<primary, local_file, reg, phone>>
    /\ UNCHANGED <<chatVars, toolVars>>

\* trigger_sos: the summary is made and returned
Summarize ==
    /\ sos.pc = "summarize"
    /\ sos' = [sos EXCEPT !.pc = "returned",
                          !.result = Summary(sos.results),
                          !.status = StatusFor(sos.via, Summary(sos.results).text)]
    /\ UNCHANGED <<primary, local_file, reg, phone>>
    /\ UNCHANGED <<chatVars, toolVars>>

\* the caller has its answer
TriggerDone ==
    /\ sos.pc = "returned"
    /\ sos' = NoTrigger
    /\ UNCHANGED <<primary, local_file, reg, phone>>
    /\ UNCHANGED <<chatVars, toolVars>>

ToolsOff ==
    /\ tpc = "off"
    /\ location = <<>>
    /\ resolution = NoResolution
    /\ tool_out = NoOutput
    /\ cap = NoCall
    /\ synth = NoSynthesis
    /\ run = NoRun

InitSos == ChatOff /\ ToolsOff /\ SosOff

NextSos ==
    \/ \E via \in {"api", "tool"}, u \in SosUsers, d \in ContactData,
          outcome \in DbOutcomes :
           AddSingleContact(via, u, d, outcome)
    \/ \E u \in SosUsers, d1, d2 \in ContactData, o1, o2 \in DbOutcomes,
          lo \in FileOutcomes :
           d1 # d2 /\ SaveContacts(u, d1, d2, o1, o2, lo)
    \/ \E call \in TriggerCalls, u \in SosUsers, available \in BOOLEAN :
           TriggerStart(call, u, available)
    \/ \E outcome \in DbOutcomes : LoadPrimary(outcome)
    \/ \E outcome \in FileOutcomes : LoadLocal(outcome)
    \/ \E outcome \in SendOutcomes : Dispatch(outcome)
    \/ Summarize
    \/ TriggerDone

SpecSos == InitSos /\ [][NextSos]_vars

-----------------------------------------------------------------------------
(* Contact numbers (tools/sos.py, Contact)                                 *)

\* the number strings tried: a head of up to MaxPrefix characters of
\* PhoneAlphabet followed by a run of up to MaxRun digits
MaxPrefix == 3
MaxRun == 10

PhoneAlphabet == {"9", "1", "+", "-"}

RunDigit == "7"

PhoneInputs ==
    { head \o [j \in 1..r |-> RunDigit] :
          head \in UNION { [1..p -> PhoneAlphabet] : p \in 0..MaxPrefix },
          r \in 0..MaxRun }

\* a number of exactly ten digits and nothing else
IsLocalNumber(number) ==
    /\ Len(number) = 10
    /\ \A j \in 1..Len(number) : IsDigit(number[j])

\* _normalize_number applied to the input
NormalizeOnce ==
    /\ phone.pc = "raw"
    /\ phone' = [phone EXCEPT !.pc = "once", !.once = _normalize_number(phone.input)]
    /\ UNCHANGED <<primary, local_file, sos, reg>>
    /\ UNCHANGED <<chatVars, toolVars>>

\* _normalize_number applied to its own result
NormalizeTwice ==
    /\ phone.pc = "once"
    /\ phone' = [phone EXCEPT !.pc = "twice", !.twice = _normalize_number(phone.once)]
    /\ UNCHANGED <<primary, local_file, sos, reg>>
    /\ UNCHANGED <<chatVars, toolVars>>

\* one Contact from a ten-digit number, one from the same number after +91
ConstructBoth ==
    /\ phone.pc = "raw"
    /\ IsLocalNumber(phone.input)
    /\ phone' = [phone EXCEPT
                   !.pc = "built",
                   !.local = Contact(<<"A","n","u">>, phone.input, <<"k","i","n">>),
                   !.intl = Contact(<<"A","n","u">>, <<"+","9","1">> \o phone.input, <<"k","i","n">>)]
    /\ UNCHANGED <<primary, local_file, sos, reg>>
    /\ UNCHANGED <<chatVars, toolVars>>

InitPhone ==
    /\ ChatOff
    /\ ToolsOff
    /\ primary = [u \in SosUsers |-> <<>>]
    /\ local_file = NoFile
    /\ sos = NoTrigger
    /\ reg = NoRegistration
    /\ phone \in [pc : {"raw"}, input : PhoneInputs, once : {<<>>}, twice : {<<>>},
                  local : {<<>>}, intl : {<<>>}]

NextPhone == NormalizeOnce \/ NormalizeTwice \/ ConstructBoth

SpecPhone == InitPhone /\ [][NextPhone]_vars

-----------------------------------------------------------------------------
(* Synthesis (trip_agent.py, chatbot, the branch after a tool round)       *)
(*                                                                         *)
(* Glyphs are written as ASCII characters: "~" for the wave.               *)

\* SAFE_WATERFALLS: the states in the order of the dict, each with the
\* first entry of its list
SAFE_WATERFALLS ==
    << [state |-> <<"k","e","r","a","l","a">>, name |-> <<"A","t","h","i","r","a","p","p","i","l","l","y"," ","F","a","l","l","s">>,
        safety_level |-> <<"S","A","F","E">>, current_status |-> <<"S","a","f","e"," ","f","o","r"," ","v","i","e","w","i","n","g">>,
        best_time |-> <<"8",":","0","0"," ","A","M"," ","-"," ","1","0",":","0","0"," ","A","M">>, bathing |-> <<"S","h","a","l","l","o","w"," ","a","r","e","a","s"," ","o","n","l","y">>],
       [state |-> <<"t","a","m","i","l"," ","n","a","d","u">>, name |-> <<"C","o","u","r","t","a","l","l","a","m"," ","F","a","l","l","s">>,
        safety_level |-> <<"S","A","F","E">>, current_status |-> <<"E","x","c","e","l","l","e","n","t"," ","f","o","r"," ","f","a","m","i","l","i","e","s">>,
        best_time |-> <<"7",":","0","0"," ","A","M"," ","-"," ","9",":","0","0"," ","A","M">>, bathing |-> <<"M","u","l","t","i","p","l","e"," ","s","a","f","e"," ","a","r","e","a","s">>],
       [state |-> <<"k","a","r","n","a","t","a","k","a">>, name |-> <<"J","o","g"," ","F","a","l","l","s">>,
        safety_level |-> <<"S","A","F","E">>, current_status |-> <<"S","a","f","e"," ","f","o","r"," ","v","i","e","w","i","n","g">>,
        best_time |-> <<"8",":","0","0"," ","A","M"," ","-"," ","1","0",":","0","0"," ","A","M">>, bathing |-> <<"V","i","e","w","i","n","g"," ","o","n","l","y">>],
       [state |-> <<"g","o","a">>, name |-> <<"D","u","d","h","s","a","g","a","r"," ","F","a","l","l","s">>,
        safety_level |-> <<"M","O","D","E","R","A","T","E">>, current_status |-> <<"S","a","f","e"," ","w","i","t","h"," ","p","r","e","c","a","u","t","i","o","n","s">>,
        best_time |-> <<"8",":","0","0"," ","A","M"," ","-"," ","1","0",":","0","0"," ","A","M">>, bathing |-> <<"E","x","e","r","c","i","s","e"," ","c","a","u","t","i","o","n">>] >>

\* the entry returned for a location that names no state of the table
LocalWaterfall ==
    [state |-> <<>>, name |-> <<"L","o","c","a","l"," ","S","a","f","e"," ","W","a","t","e","r","f","a","l","l">>,
     safety_level |-> <<"S","A","F","E">>, current_status |-> <<"S","a","f","e"," ","f","o","r"," ","v","i","e","w","i","n","g">>,
     best_time |-> <<"8",":","0","0"," ","A","M"," ","-"," ","1","0",":","0","0"," ","A","M">>, bathing |-> <<"C","h","e","c","k"," ","c","o","n","d","i","t","i","o","n","s">>]

\* get_safest_waterfall
get_safest_waterfall(loc) ==
    LET hits == {k \in 1..Len(SAFE_WATERFALLS) :
                    Contains(Lower(loc), SAFE_WATERFALLS[k].state)}
    IN  IF hits = {} THEN LocalWaterfall
        ELSE SAFE_WATERFALLS[CHOOSE k \in hits : \A j \in hits : k <= j]

\* format_waterfall_safety
format_waterfall_safety(w) ==
    <<"*","*">> \o w.name \o <<"*","*"," ","~">> \o <<"\n">>
    \o <<"-"," ","S","a","f","e","t","y"," ","S","t","a","t","u","s",":"," ">> \o w.safety_level \o <<" ","-"," ">> \o w.current_status \o <<"\n">>
    \o <<"-"," ","B","e","s","t"," ","T","i","m","e",":"," ">> \o w.best_time \o <<"\n">>
    \o <<"-"," ","B","a","t","h","i","n","g",":"," ">> \o w.bathing \o <<"\n">>
    \o <<"-"," ","D","u","r","a","t","i","o","n",":"," ","2","-","3"," ","h","o","u","r","s">>

\* word.strip('.,!?')
Punctuation == {".", ",", "!", "?"}

RECURSIVE StripPunctuation(_)
StripPunctuation(w) ==
    IF w = <<>> THEN w
    ELSE IF w[1] \in Punctuation THEN StripPunctuation(Tail(w))
    ELSE IF w[Len(w)] \in Punctuation THEN StripPunctuation(SubSeq(w, 1, Len(w) - 1))
    ELSE w

\* the words never taken for the location
NotLocationWords ==
    { <<"p","l","a","n">>, <<"t","r","i","p">>, <<"d","a","y","s">>, <<"v","i","s","i","t">>, <<"t","r","a","v","e","l">>, <<"t","o","u","r">>,
      <<"w","i","t","h">>, <<"f","a","m","i","l","y">>, <<"f","r","i","e","n","d","s">>, <<"b","u","d","g","e","t">>, <<"f","o","r">> }

\* chatbot: location_match, the first word of more than three characters
\* that is not in the list, stripped of punctuation; <<>> when there is none
location_match(query) ==
    LET words == Split(query)
        fit == {k \in 1..Len(words) :
                   Len(words[k]) > 3 /\ Lower(words[k]) \notin NotLocationWords}
    IN  IF fit = {} THEN <<>>
        ELSE StripPunctuation(words[CHOOSE k \in fit : \A j \in fit : k <= j])

\* chatbot: the four flags on user_query.lower().strip()
QueryLower(query) == Strip(Lower(query))

is_places_query(query) == Contains(QueryLower(query), <<"p","l","a","c","e","s"," ","t","o"," ","v","i","s","i","t">>)

is_weather_query(query) ==
    /\ Contains(QueryLower(query), <<"w","e","a","t","h","e","r">>)
    /\ ~Contains(QueryLower(query), <<"p","l","a","n">>)

is_images_query(query) ==
    \/ Contains(QueryLower(query), <<"s","h","o","w"," ","i","m","a","g","e","s">>)
    \/ Contains(QueryLower(query), <<"i","m","a","g","e","s"," ","o","f">>)

TripPlanningWords == << <<"p","l","a","n">>, <<"b","u","d","g","e","t"," ","f","o","r">>, <<"i","t","i","n","e","r","a","r","y">> >>

is_trip_planning(query) == AnyIn(TripPlanningWords, QueryLower(query))

\* chatbot: what the branch reads off the query before it enriches
QueryFlags(query) ==
    [is_places_query |-> is_places_query(query),
     is_weather_query |-> is_weather_query(query),
     is_images_query |-> is_images_query(query),
     is_trip_planning |-> is_trip_planning(query),
     budget |-> Contains(QueryLower(query), <<"b","u","d","g","e","t">>),
     location_match |-> location_match(query)]

\* chatbot: the instruction chosen by the if/elif chain for final_prompt
Template(flags) ==
    IF flags.is_places_query THEN "places"
    ELSE IF flags.is_weather_query THEN "weather"
    ELSE IF flags.is_images_query THEN "images"
    ELSE IF flags.is_trip_planning THEN "planning"
    ELSE "generic"

\* what an enrichment call does: it returns or it raises; the places lookup
\* may return a text with place names in bold or a text without any
CallOutcomes == {"ok", "raise"}

EnrichOutcomes ==
    [places : {"found", "text", "raise"}, img1 : CallOutcomes, img2 : CallOutcomes,
     wimg : CallOutcomes, news : CallOutcomes, fallback : CallOutcomes]

\* re.findall(r'\*\*([^*]+)\*\*', places_result)[:5]
PlaceNames(places) ==
    IF places = "found" THEN << <<"F","o","r","t">>, <<"L","a","k","e">> >> ELSE <<>>

\* one enrichment call: what was called, for what, how it ended, and the
\* text "label(of): body" it adds to combined_results when it returned
Step(call, outcome, label, of, body) ==
    [call |-> call, outcome |-> outcome, label |-> label, of |-> of, body |-> body]

\* chatbot: the calls of the inner try block of a trip-planning query, which
\* the first exception ends
SafetySteps(flags, o) ==
    LET w == get_safest_waterfall(flags.location_match)
        block == Step("waterfall", "ok", "SafestWaterfall", <<>>, format_waterfall_safety(w))
        wimg == Step("waterfall_images", o.wimg, "ImagesTool", w.name, <<>>)
        news == Step("news", o.news, "NewsTool", <<>>, <<>>)
        budget == IF flags.budget
                  THEN <<Step("budget", "ok", "BudgetTool", <<>>, <<>>)>> ELSE <<>>
    IN  IF o.wimg = "raise" THEN <<block, wimg>>
        ELSE IF o.news = "raise" THEN <<block, wimg, news>>
        ELSE <<block, wimg, news>> \o budget

\* chatbot: the enrichment calls made for a query, in order
EnrichmentSteps(flags, o) ==
    LET names == PlaceNames(o.places)
        imgs == <<o.img1, o.img2>>
    IN  IF ~(flags.is_places_query \/ flags.is_trip_planning) \/ flags.location_match = <<>>
        THEN <<>>
        ELSE IF o.places = "raise"
        THEN << Step("places", "raise", "PlacesTool", <<>>, <<>>),
                Step("fallback_images", o.fallback, "ImagesTool", <<>>, <<>>) >>
        ELSE <<Step("places", "ok", "PlacesTool", <<>>, <<>>)>>
             \o [k \in 1..Len(names) |->
                    Step("place_images", imgs[k], "ImagesTool", names[k], <<>>)]
             \o (IF flags.is_trip_planning THEN SafetySteps(flags, o) ELSE <<>>)

\* what the calls that returned added to combined_results
Returned(steps) == SelectSeq(steps, LAMBDA st : st.outcome = "ok")

\* chatbot: final_prompt
FinalPrompt(query, round, steps, template) ==
    [user_query |-> query, tool_results |-> round,
     enrichment |-> Returned(steps), template |-> template]

\* the user queries tried: up to MaxPhrases phrases with a space between
MaxPhrases == 3

Phrases ==
    { <<"p","l","a","n">>, <<"2"," ","d","a","y"," ","t","r","i","p"," ","t","o">>, <<"k","e","r","a","l","a">>, <<"g","o","a">>, <<"t","a","m","i","l"," ","n","a","d","u">>,
      <<"K","a","r","n","a","t","a","k","a">>, <<"w","e","a","t","h","e","r">>, <<"i","t","i","n","e","r","a","r","y">>, <<"b","u","d","g","e","t"," ","f","o","r">>,
      <<"p","l","a","c","e","s"," ","t","o"," ","v","i","s","i","t">>, <<"s","h","o","w"," ","i","m","a","g","e","s">>, <<"p","l","e","a","s","e">> }

Queries ==
    { Join(<<" ">>, parts) :
          parts \in UNION { [1..n -> Phrases] : n \in 0..MaxPhrases } }

\* the tool round the synthesis follows
ToolRound == << [name |-> "WeatherTool", content |-> <<"o","k">>] >>

\* chatbot, synthesis branch: the query is lower-cased and classified
Classify ==
    /\ synth.pc = "ask"
    /\ synth' = [synth EXCEPT !.pc = "enrich", !.flags = QueryFlags(synth.query)]
    /\ UNCHANGED <<tpc, location, resolution, tool_out, cap, run>>
    /\ UNCHANGED <<chatVars, sosVars>>

\* chatbot, synthesis branch: the enrichment calls are made and the final
\* prompt is built
Synthesize(o) ==
    /\ synth.pc = "enrich"
    /\ LET steps == EnrichmentSteps(synth.flags, o)
       IN  synth' = [synth EXCEPT
                       !.pc = "done",
                       !.steps = steps,
                       !.final_prompt =
                           FinalPrompt(synth.query, ToolRound, steps, Template(synth.flags))]
    /\ UNCHANGED <<tpc, location, resolution, tool_out, cap, run>>
    /\ UNCHANGED <<chatVars, sosVars>>

InitSynth ==
    /\ ChatOff
    /\ SosOff
    /\ tpc = "off"
    /\ location = <<>>
    /\ resolution = NoResolution
    /\ tool_out = NoOutput
    /\ cap = NoCall
    /\ run = NoRun
    /\ synth \in [pc : {"ask"}, query : Queries, flags : {NoFlags}, steps : {<<>>},
                  final_prompt : {NoSynthesis.final_prompt}]

NextSynth ==
    \/ Classify
    \/ \E o \in EnrichOutcomes : Synthesize(o)

SpecSynth == InitSynth /\ [][NextSynth]_vars

-----------------------------------------------------------------------------
(* Tool integration (tool_integration.py)                                  *)

\* ToolIntegrator.__init__: the names in tool_map
tool_map == {"weather", "places", "booking", "images", "news"}

\* the names execute_tool is called with, two of them not in tool_map
ExecuteNames == tool_map \cup {"flights", "Weather"}

\* a handler: the capability is awaited inside try / except Exception, and
\* an exception becomes the handler's failure text
Handler(tool, configured, net) ==
    LET r == Capability(tool, configured, net)
    IN  IF r.raised THEN Text("cross") ELSE r

ExecuteResult(raised, kind, head, name, invoked, handler_raised) ==
    [raised |-> raised, kind |-> kind, head |-> head, name |-> name,
     invoked |-> invoked, handler_raised |-> handler_raised]

\* execute_tool without its try: the handler's exception leaves the call
execute_tool_unguarded(tool_name, kwargs, configured, net) ==
    IF tool_name \in tool_map
    THEN IF kwargs = "bad"
         THEN ExecuteResult(TRUE, "none", "none", tool_name, <<tool_name>>, TRUE)
         ELSE ExecuteResult(FALSE, "handler", Handler(tool_name, configured, net).head,
                            tool_name, <<tool_name>>, FALSE)
    ELSE ExecuteResult(FALSE, "unknown_tool", "cross", tool_name, <<>>, FALSE)

\* ToolIntegrator.execute_tool: kwargs the handler does not accept make the
\* call of the handler raise TypeError
execute_tool(tool_name, kwargs, configured, net) ==
    IF tool_name \in tool_map
    THEN IF kwargs = "bad"
         THEN ExecuteResult(FALSE, "tool_error", "cross", tool_name, <<tool_name>>, TRUE)
         ELSE ExecuteResult(FALSE, "handler", Handler(tool_name, configured, net).head,
                            tool_name, <<tool_name>>, FALSE)
    ELSE ExecuteResult(FALSE, "unknown_tool", "cross", tool_name, <<>>, FALSE)

\* the capabilities a handler awaits: _handle_places asks get_images for the
\* same location after get_places returned, the place type being tourism
HandlerLookups(tool, places_raises) ==
    IF tool = "places"
    THEN IF places_raises THEN <<"get_places">> ELSE <<"get_places", "get_images">>
    ELSE << CASE tool = "weather" -> "get_weather"
              [] tool = "booking" -> "get_booking"
              [] tool = "images"  -> "get_images"
              [] tool = "news"    -> "get_news" >>

TripWords == << <<"p","l","a","n">>, <<"t","r","i","p">>, <<"v","i","s","i","t">>,
                <<"t","r","a","v","e","l">> >>
PlacesWords == << <<"p","l","a","c","e","s">>,
                  <<"a","t","t","r","a","c","t","i","o","n","s">>,
                  <<"v","i","s","i","t">> >>
StayWords == << <<"h","o","t","e","l">>,
                <<"a","c","c","o","m","m","o","d","a","t","i","o","n">>,
                <<"s","t","a","y">> >>
PhotoWords == << <<"i","m","a","g","e","s">>, <<"p","h","o","t","o","s">>,
                 <<"p","i","c","t","u","r","e","s">> >>

\* integrate_tools_for_trip_planning: the tools executed for a query, in order
IntegratedTools(text) ==
    LET query_lower == Lower(text)
    IN  (IF AnyIn(TripWords, query_lower) THEN <<"weather", "places", "images">> ELSE <<>>)
        \o (IF Contains(query_lower, <<"w","e","a","t","h","e","r">>) THEN <<"weather">> ELSE <<>>)
        \o (IF AnyIn(PlacesWords, query_lower) THEN <<"places">> ELSE <<>>)
        \o (IF AnyIn(StayWords, query_lower) THEN <<"booking">> ELSE <<>>)
        \o (IF AnyIn(PhotoWords, query_lower) THEN <<"images">> ELSE <<>>)

RECURSIVE Flatten(_)
Flatten(seqs) == IF seqs = <<>> THEN <<>> ELSE Head(seqs) \o Flatten(Tail(seqs))

\* integrate_tools_for_trip_planning: the capabilities awaited, all for the
\* one location of the call
integrate_tools_for_trip_planning(text, places_raises) ==
    LET tools == IntegratedTools(text)
    IN  [tools |-> tools,
         lookups |-> Flatten([k \in 1..Len(tools) |->
                                 HandlerLookups(tools[k], places_raises)]),
         results |-> {tools[k] : k \in 1..Len(tools)}]

IntegratorWords ==
    { <<"p","l","a","n">>, <<"w","e","a","t","h","e","r">>, <<"v","i","s","i","t">>,
      <<"h","o","t","e","l">>, <<"p","h","o","t","o","s">>, <<"G","o","a">>,
      <<"f","o","o","d">> }

MaxWords == 2

IntegratorQueries ==
    { Join(<<" ">>, parts) :
          parts \in UNION { [1..n -> IntegratorWords] : n \in 0..MaxWords } }

NoExecute == ExecuteResult(FALSE, "none", "none", "none", <<>>, FALSE)

IntegratorInputs ==
    [pc : {"execute"}, tool : {"execute_tool"}, name : ExecuteNames,
     kwargs : {"ok", "bad"}, configured : BOOLEAN, net : NetOutcomes,
     out : {NoExecute}]
    \cup
    [pc : {"integrate"}, tool : {"integrate"}, query : IntegratorQueries,
     places_raises : BOOLEAN,
     out : {[tools |-> <<>>, lookups |-> <<>>, results |-> {}]}]

RunExecuteTool ==
    /\ run.pc = "execute"
    /\ run' = [run EXCEPT
                 !.pc = "done",
                 !.out = execute_tool(run.name, run.kwargs, run.configured, run.net)]
    /\ UNCHANGED <<tpc, location, resolution, tool_out, cap, synth>>
    /\ UNCHANGED <<chatVars, sosVars>>

RunIntegrate ==
    /\ run.pc = "integrate"
    /\ run' = [run EXCEPT
                 !.pc = "done",
                 !.out = integrate_tools_for_trip_planning(run.query, run.places_raises)]
    /\ UNCHANGED <<tpc, location, resolution, tool_out, cap, synth>>
    /\ UNCHANGED <<chatVars, sosVars>>

InitIntegrator ==
    /\ ChatOff
    /\ SosOff
    /\ tpc = "off"
    /\ location = <<>>
    /\ resolution = NoResolution
    /\ tool_out = NoOutput
    /\ cap = NoCall
    /\ synth = NoSynthesis
    /\ run \in IntegratorInputs

NextIntegrator == RunExecuteTool \/ RunIntegrate

SpecIntegrator == InitIntegrator /\ [][NextIntegrator]_vars


-----------------------------------------------------------------------------
(* Properties                                                              *)

Last(s) == s[Len(s)]

\* handler p received a text in this step
Received(p) == nrecv'[p] = nrecv[p] + 1

\* the contents of the human messages of a history, in order
RECURSIVE HumanContents(_)
HumanContents(messages) ==
    IF messages = <<>> THEN <<>>
    ELSE IF Head(messages).type = "human"
    THEN <<Head(messages).content>> \o HumanContents(Tail(messages))
    ELSE HumanContents(Tail(messages))

\* position of the last ai message that carries tool calls, 0 when none
LastToolCallIdx(messages) ==
    LET Calling == {i \in 1..Len(messages) :
                      messages[i].type = "ai" /\ messages[i].tool_calls # <<>>}
    IN  IF Calling = {} THEN 0 ELSE CHOOSE i \in Calling : \A j \in Calling : j <= i

\* every tool message follows an ai message that asked for that call
ToolResultsPreceded(messages) ==
    \A i \in 1..Len(messages) :
        messages[i].type = "tool" =>
            \E j \in 1..(i-1) :
                /\ messages[j].type = "ai"
                /\ \E k \in 1..Len(messages[j].tool_calls) :
                      /\ messages[j].tool_calls[k].id = messages[i].tool_call_id
                      /\ messages[j].tool_calls[k].name = messages[i].name

C2_HumanHistoryIsInputs ==
    \A u \in SessionIds :
        (/\ HasSession(u)
         /\ \E p \in Handlers :
               /\ uid[p] = u
               /\ pc[p] = "recv"
               /\ \A q \in Handlers \ {p} : nrecv[q] = 0) =>
            HumanContents(SESSIONS[u].messages) = inputs[u]

\* C3: no connection appends a user message to a session while another
\* connection's turn on that session is between its own append and the
\* storing of its reply.
C3_TurnsSerialized ==
    [][\A q \in Conns :
          (Received(q) /\ pc'[q] \in {"invoke", "graph"}) =>
              ~\E p \in Conns \ {q} :
                  /\ uid[p] = uid[q]
                  /\ pc[p] = "invoke"
                  /\ \E i \in 1..Len(SESSIONS[uid[p]].messages) :
                        SESSIONS[uid[p]].messages[i] = HumanMessage(user_text[p])]_vars

C5_EmergencyBypass ==
    [][\A c \in Conns :
          (Received(c) /\ AnyIn(SosWords, Lower(user_text'[c]))) =>
              /\ sent'[c] \in {<<Note("sos_setup")>>, <<Note("sos_button")>>}
              /\ SESSIONS' = SESSIONS
              /\ graph' = graph
              /\ pc'[c] = "recv"]_vars

\* C6: an empty or whitespace-only text is answered with the help text, the
\* sessions are unchanged and the graph is not invoked.
C6_BlankIgnored ==
    [][\A p \in Handlers :
          (Received(p) /\ Strip(user_text'[p]) = <<>>) =>
              /\ sent'[p] = <<Note(IF p = Cli THEN "cli_help" ELSE "help")>>
              /\ SESSIONS' = SESSIONS
              /\ graph.owner = "none"
              /\ graph' = graph
              /\ pc'[p] = pc[p]]_vars

\* a whitespace-only text was answered on a connection whose session
\* already holds messages
C6_Witness ==
    \E c \in Conns :
        /\ pc[c] = "recv"
        /\ user_text[c] = T_Blank
        /\ sent[c] = <<Note("help")>>
        /\ HasSession(uid[c])
        /\ SESSIONS[uid[c]].messages # <<>>

\* C7: when the deciding response of a turn carries text and tool calls, the
\* reply sent for the turn is the text of an ai message without tool calls
\* that comes after that response.
C7_ReplyFromLaterMessage ==
    [][\A c \in Conns :
          (graph.owner = c /\ graph.node = "end" /\ graph.rounds >= 1
             /\ graph'.owner = "none") =>
              LET msgs == graph.messages
                  d == LastToolCallIdx(msgs)
                  r == Last(sent'[c])
              IN  (msgs[d].content # <<>> /\ r.kind = "reply") =>
                      /\ r.src > d
                      /\ msgs[r.src].type = "ai"
                      /\ msgs[r.src].tool_calls = <<>>]_vars

\* C8: in every session history (and in the history a running graph holds)
\* each tool message is preceded by an ai message whose tool_calls include
\* that call.
C8_ToolResultsHaveCalls ==
    /\ \A u \in SessionIds : ToolResultsPreceded(SESSIONS[u].messages)
    /\ ToolResultsPreceded(graph.messages)

\* a stored history that holds the two results of one tool round
C8_Witness ==
    \E u \in SessionIds :
        /\ HasSession(u)
        /\ \E i \in 1..Len(SESSIONS[u].messages) :
              /\ SESSIONS[u].messages[i].type = "tool"
              /\ i > 1
              /\ SESSIONS[u].messages[i-1].type = "tool"

\* C9: with the default threshold, the best match m of the lower-cased,
\* stripped input and its similarity s decide the result: s >= 0.8 gives
\* m title-cased, corrected, no confirmation; 0.6 <= s < 0.8 gives m
\* title-cased, corrected, confirmation needed; s < 0.6 or no match gives the
\* input back, not corrected; needs_confirmation implies was_corrected.
C9_Classification ==
    tpc \in {"checked", "done"} =>
        LET word == Strip(Lower(location))
            best == GetCloseMatches(word, DESTINATIONS, <<6, 10>>)
        IN  /\ resolution.needs_confirmation => resolution.was_corrected
            /\ IF best = <<>>
               THEN resolution = LocationResolution(location, FALSE, FALSE)
               ELSE LET s == Ratio(word, best[1])
                    IN  /\ RatioGE(s, <<8, 10>>) =>
                              resolution = LocationResolution(Title(best[1]), TRUE, FALSE)
                        /\ (RatioGE(s, <<6, 10>>) /\ ~RatioGE(s, <<8, 10>>)) =>
                              resolution = LocationResolution(Title(best[1]), TRUE, TRUE)
                        /\ ~RatioGE(s, <<6, 10>>) =>
                              resolution = LocationResolution(location, FALSE, FALSE)

\* "go" against "goa" scores exactly 0.8 and was corrected without asking
C9_Witness ==
    /\ tpc = "checked"
    /\ location = <<"g","o">>
    /\ Ratio(<<"g","o">>, <<"g","o","a">>) = <<4, 5>>
    /\ resolution = LocationResolution(<<"G","o","a">>, TRUE, FALSE)

\* C10: a location that is a gazetteer entry, or the title-cased form the
\* normalizer resolves to, comes back unchanged with was_corrected false,
\* and the weather tool attaches no notice.
C10_CanonicalUnchanged ==
    (/\ tpc = "done"
     /\ \E i \in 1..Len(DESTINATIONS) :
           location = DESTINATIONS[i] \/ location = Title(DESTINATIONS[i])) =>
        /\ resolution = LocationResolution(location, FALSE, FALSE)
        /\ tool_out.notice = "none"

\* C11: whatever the network call behind a capability tool does, the tool
\* function raises nothing, and on a timeout, a connection error, a non-2xx
\* status, an undecodable body or an empty result the text it returns
\* begins with the failure marker.
C11_FailuresAreMarkedText ==
    tpc = "net_done" =>
        /\ ~cap.raised
        /\ (cap.configured /\ cap.net # "ok") => cap.head = "cross"

\* the sends of the trigger_sos call in progress that succeeded
SendsSucceeded ==
    {j \in 1..Len(sos.sends) : sos.sends[j].outcome = "ok"}

NothingLoaded ==
    /\ sos.primary_load \in {"empty", "error"}
    /\ sos.local_load \in {"absent", "error"}

C14_StatusTellsOutcome ==
    (sos.pc = "returned" /\ sos.via = "api" /\ sos.result.kind = "summary") =>
        /\ sos.status = "success" <=> sos.result.k = sos.result.n
        /\ sos.status = "partial" <=> (0 < sos.result.k /\ sos.result.k < sos.result.n)

Loaded == sos.pc \in {"dispatch", "summarize", "returned"}

\* the contacts a list of stored records yields
FromRecords(records) == [j \in 1..Len(records) |-> ContactFromDict(records[j])]

C17_RegistrationFallsBack ==
    reg.kind # "none" =>
        /\ ~reg.raised
        /\ reg.text # "none"
        /\ reg.primary_failed => reg.local_attempted
        /\ ~reg.primary_failed => ~reg.local_attempted

C19_NormalizeIdempotent ==
    phone.pc = "twice" => phone.twice = phone.once

\* a number of more than ten digits beginning with 91 went through twice
C19_Witness ==
    /\ phone.pc = "twice"
    /\ StartsWith(phone.input, <<"9","1">>)
    /\ Len(phone.input) > 10
    /\ phone.once = <<"+">> \o phone.input
    /\ phone.twice = phone.once

\* the texts of the human messages of a list other than the location note
\* the chatbot node adds
ReceivedTexts(messages) ==
    {HumanContents(messages)[j] : j \in 1..Len(HumanContents(messages))} \ {InfoText}

\* the texts appended for a session id since its session was created
InputSet(u) == {inputs[u][j] : j \in 1..Len(inputs[u])}

C21_StatusTellsStored ==
    (reg.kind = "single" /\ reg.via = "api") =>
        /\ reg.status = "success" => ~reg.primary_failed
        /\ reg.primary_failed => reg.status = "error"

ActedOn(p, u) ==
    /\ uid[p] = u \/ uid'[p] = u
    /\ \/ pc'[p] # pc[p]
       \/ sent'[p] # sent[p]
       \/ nrecv'[p] # nrecv[p]
       \/ graph.owner = p /\ graph' # graph

\* C23: a step changes the session stored for an id only when a handler on
\* that id took it (a connect, a turn, a failure, a result stored, a
\* disconnect), and what is stored for every other id is left as it was.
C23_SessionsIndependent ==
    [][\A u \in SessionIds :
          SESSIONS'[u] # SESSIONS[u] =>
              /\ \E p \in Handlers : ActedOn(p, u)
              /\ \A v \in SessionIds \ {u} : SESSIONS'[v] = SESSIONS[v]]_vars

\* one connection had a turn and disconnected, and the history of a
\* connection on another id is in place
C23_Witness ==
    \E c, d \in Conns :
        /\ uid[d] \in UserIds
        /\ pc[c] = "closed"
        /\ nrecv[c] > 0
        /\ \A u \in UserIds \ {uid[d]} : ~HasSession(u)
        /\ pc[d] = "recv"
        /\ nrecv[d] > 0
        /\ HasSession(uid[d])
        /\ Len(SESSIONS[uid[d]].messages) >= 2

\* the chatbot node ran its synthesis branch in this step
SynthesisStep ==
    /\ graph.node = "chatbot"
    /\ Synthesizes(graph.messages)
    /\ graph'.owner = graph.owner
    /\ graph'.messages # graph.messages

\* C24: when synthesis starts, the history ends with one tool message for
\* each tool call of the round's request, in the order of the calls; the
\* prompt holds the name and text of each of them in that order, and, for a
\* handler alone on its session id, the user text of the turn.
C24_PromptHoldsTurn ==
    [][SynthesisStep =>
          LET m == graph.messages
              i == LastToolCallIdx(m)
              calls == m[i].tool_calls
              p == graph.owner
          IN  /\ i > 0
              /\ Len(m) = i + Len(calls)
              /\ \A k \in 1..Len(calls) :
                     /\ m[i + k].type = "tool"
                     /\ m[i + k].tool_call_id = calls[k].id
                     /\ m[i + k].name = calls[k].name
              /\ graph'.final_prompt.made
              /\ graph'.final_prompt.tool_results =
                     [k \in 1..Len(calls) |->
                         [name |-> m[i + k].name, content |-> m[i + k].content]]
              /\ (\A q \in Handlers \ {p} : uid[q] # uid[p]) =>
                     graph'.final_prompt.user_query = user_text[p]]_vars

\* the intent of a query by the fixed order: the places phrase, then weather
\* without a planning keyword, then an imagery phrase, then a planning
\* keyword, else generic
Intent(query) ==
    IF is_places_query(query) THEN "places"
    ELSE IF Contains(QueryLower(query), <<"w","e","a","t","h","e","r">>) /\ ~is_trip_planning(query)
    THEN "weather"
    ELSE IF is_images_query(query) THEN "images"
    ELSE IF is_trip_planning(query) THEN "planning"
    ELSE "generic"

\* C25: the instruction of the final prompt is the one of the query's
\* intent, the intents tried in order: places-listing phrase, weather
\* without a planning keyword, imagery phrase, planning keyword, generic.
C25_TemplateOfIntent ==
    synth.pc = "done" => synth.final_prompt.template = Intent(synth.query)

\* the enrichment of the final prompt holds an entry of this label and subject
Enriched(label, of) ==
    \E k \in 1..Len(synth.final_prompt.enrichment) :
        /\ synth.final_prompt.enrichment[k].label = label
        /\ synth.final_prompt.enrichment[k].of = of

\* this enrichment call was made and raised
CallFailed(call) ==
    \E k \in 1..Len(synth.steps) :
        synth.steps[k].call = call /\ synth.steps[k].outcome = "raise"

\* C26: when the enrichment runs, a call that raises costs the prompt only
\* its own result: the places text, the landmark block, the landmark images,
\* the news and the budget are each there unless that very call raised.
C26_OnlyFailedCallOmitted ==
    (synth.pc = "done" /\ synth.steps # <<>>) =>
        LET w == get_safest_waterfall(synth.flags.location_match)
        IN  /\ ~CallFailed("places") => Enriched("PlacesTool", <<>>)
            /\ synth.flags.is_trip_planning =>
                  /\ Enriched("SafestWaterfall", <<>>)
                  /\ ~CallFailed("waterfall_images") => Enriched("ImagesTool", w.name)
                  /\ ~CallFailed("news") => Enriched("NewsTool", <<>>)
                  /\ synth.flags.budget => Enriched("BudgetTool", <<>>)

\* the final prompt holds the formatted safety block of this table entry
SafetyBlockOf(w) ==
    \E k \in 1..Len(synth.final_prompt.enrichment) :
        /\ synth.final_prompt.enrichment[k].label = "SafestWaterfall"
        /\ synth.final_prompt.enrichment[k].body = format_waterfall_safety(w)

\* the states of the landmark table the query names
StatesNamed(query) ==
    {k \in 1..Len(SAFE_WATERFALLS) :
        Contains(QueryLower(query), SAFE_WATERFALLS[k].state)}

\* C27: a trip-planning query that names a state of the landmark table gets
\* the formatted safety block of the first entry of a state it names, the
\* places lookup having returned.
C27_BlockOfNamedState ==
    (/\ synth.pc = "done"
     /\ is_trip_planning(synth.query)
     /\ StatesNamed(synth.query) # {}
     /\ ~CallFailed("places")) =>
        \E k \in StatesNamed(synth.query) : SafetyBlockOf(SAFE_WATERFALLS[k])

\* the name a lookup is due for a location text: the normalizer's name when
\* it corrected the text, the text otherwise
Resolved(loc) ==
    LET r == smart_spell_check_location(loc, ConfidenceThreshold)
    IN  IF r.was_corrected THEN r.name ELSE loc

\* the prefix due for the location texts of a call
PrefixDue(locs) ==
    LET r == [k \in 1..Len(locs) |-> smart_spell_check_location(locs[k], ConfidenceThreshold)]
    IN  IF \E k \in 1..Len(locs) : r[k].needs_confirmation THEN "did_you_mean"
        ELSE IF \E k \in 1..Len(locs) : r[k].was_corrected THEN "showing"
        ELSE "none"

SingleLocationTools == LocationTools \cup {"BookingTool"}

\* a single-location tool made one lookup, for the resolved name, with the
\* prefix due
OneLookupResolved ==
    /\ Len(run.out.lookups) = 1
    /\ run.out.lookups[1].args[1] = Resolved(run.location)
    /\ run.out.prefix = PrefixDue(<<run.location>>)

\* the two ends of a directions query, lower-cased and trimmed
RouteEnds(query) ==
    LET parts == SplitOn(Strip(Lower(query)), <<" ","t","o"," ">>)
    IN  IF Len(parts) < 2 THEN <<>> ELSE <<Strip(parts[1]), Strip(parts[2])>>

\* C28 as stated: every location tool, MapsTool included, makes exactly one
\* lookup whatever it is given, for the resolved name, with the prefix due.
C28_AlwaysOneLookup ==
    (run.pc = "done" /\ run.tool \in SingleLocationTools \cup {"MapsTool"}) =>
        /\ Len(run.out.lookups) = 1
        /\ run.tool \in SingleLocationTools => OneLookupResolved

\* C28 (amended): the single-location tools make exactly one lookup, for the
\* resolved name, with the prefix due; MapsTool does so for both ends of a
\* query that has " to " in it, the ends lower-cased and trimmed, and makes
\* no lookup and answers with the format hint when the query has none.
C28_OneLookupWhenParsed ==
    run.pc = "done" =>
        /\ run.tool \in SingleLocationTools => OneLookupResolved
        /\ run.tool = "MapsTool" =>
              LET ends == RouteEnds(run.location)
              IN  IF ends = <<>>
                  THEN /\ run.out.lookups = <<>>
                       /\ run.out.reply = "format"
                       /\ run.out.prefix = "none"
                  ELSE /\ Len(run.out.lookups) = 1
                       /\ run.out.lookups[1].args = <<Resolved(ends[1]), Resolved(ends[2])>>
                       /\ run.out.prefix = PrefixDue(ends)

C28_Witness ==
    /\ run.pc = "done"
    /\ run.tool = "PlacesTool"
    /\ run.out.prefix = "did_you_mean"
    /\ run.out.lookups[1].args[1] # run.location

\* C29: BookingTool called with a location and a category (place_type) that
\* are not empty hands that category to the lodging lookup and, the service
\* being configured, the lookup issues the query; the guided prompt comes
\* back only when the location or the category is missing.
C29_CategoryReachesLookup ==
    (run.pc = "done" /\ run.tool = "BookingTool") =>
        /\ (run.location # <<>> /\ run.place_type # <<>>) =>
              /\ run.out.category = run.place_type
              /\ run.configured => run.out.reply = "query"
        /\ run.out.reply \in {"ask_location", "ask_type"} =>
              (run.location = <<>> \/ run.place_type = <<>>)

\* the search found nothing and the retry with the last word found something
RetryFound ==
    /\ run.tool = "get_images"
    /\ run.configured
    /\ run.first.status = "200" /\ run.first.results = <<>>
    /\ Len(Split(Strip(run.location))) > 1
    /\ run.retry.status = "200" /\ run.retry.results # <<>>

\* C30: when the search finds nothing and the retry with the last word of
\* the query finds something, get_images returns the retry's results; it
\* returns the no-images text only when the search found nothing and no
\* retry found anything.
C30_RetryResultsReturned ==
    (run.pc = "done" /\ run.tool = "get_images") =>
        /\ RetryFound =>
              /\ run.out.reply = "images"
              /\ run.out.results = run.retry.results
              /\ run.out.queries[2] = Split(Strip(run.location))[Len(Split(Strip(run.location)))]
        /\ run.out.reply = "no_images" =>
              /\ run.first.results = <<>>
              /\ ~RetryFound

C30_Witness ==
    /\ run.pc = "done"
    /\ RetryFound
    /\ run.out.results = <<"r1", "r2">>

\* the number of requests of this kind get_places has made
Made(kind) == Cardinality({i \in 1..Len(run.requests) : run.requests[i] = kind})

\* the requests a tool has issued stay within its bound
RequestsBounded ==
    /\ run.tool \in {"get_images", "get_news"} => Len(run.out.queries) <= 2
    /\ run.tool = "get_places" =>
          /\ Made("geocode") <= 1
          /\ Made("overpass") <= 3
          /\ Made("nominatim") <= 1
          /\ Len(run.requests) <= 5

\* C31: a tool issues a bounded number of requests and then ends: imagery
\* and news at most two searches, places at most one geocode, three box
\* searches and one fallback search.
C31_BoundedThenEnds == []RequestsBounded /\ <>(run.pc = "done")

C31_Witness ==
    /\ run.tool = "get_places"
    /\ run.pc = "done"
    /\ run.requests = <<"geocode", "overpass", "overpass", "overpass", "nominatim">>

\* C32: execute_tool never raises: a name that is not in the tool map gets
\* the "Unknown tool" failure text for that name and no handler is invoked,
\* and a handler that raises gets a failure text.
C32_ExecuteNeverRaises ==
    (run.tool = "execute_tool" /\ run.pc = "done") =>
        /\ ~run.out.raised
        /\ run.name \notin tool_map =>
              /\ run.out.kind = "unknown_tool"
              /\ run.out.head = "cross"
              /\ run.out.name = run.name
              /\ run.out.invoked = <<>>
        /\ run.out.handler_raised =>
              /\ run.out.kind = "tool_error"
              /\ run.out.head = "cross"

C32_Witness ==
    /\ run.tool = "execute_tool"
    /\ run.pc = "done"
    /\ run.name \in tool_map
    /\ run.out.handler_raised
    /\ run.out.kind = "tool_error"

\* C34: within one integrate_tools_for_trip_planning call no capability is
\* awaited twice for the location of the call.
C34_NoLookupTwice ==
    (run.tool = "integrate" /\ run.pc = "done") =>
        \A i, j \in 1..Len(run.out.lookups) :
            run.out.lookups[i] = run.out.lookups[j] => i = j

\* a is a prefix of b
IsPrefix(a, b) == Len(a) <= Len(b) /\ SubSeq(b, 1, Len(a)) = a

\* C33: while a session exists (from its creation to the disconnect that
\* deletes it) its message history only grows at the end: every step leaves
\* the history it found as a prefix of the history it leaves.
C33_HistoryAppendOnly ==
    [][\A u \in SessionIds :
          (HasSession(u) /\ HasSession(u)') =>
              IsPrefix(SESSIONS[u].messages, SESSIONS'[u].messages)]_vars

\* a connection has had two turns answered from the graph: the history holds
\* the first turn's messages and, after them, the second turn's
C33_Witness ==
    \E c \in Conns :
        /\ pc[c] = "recv"
        /\ nrecv[c] = 2
        /\ HasSession(uid[c])
        /\ Len(SESSIONS[uid[c]].messages) >= 4
        /\ SESSIONS[uid[c]].messages[1].type = "human"
        /\ Last(SESSIONS[uid[c]].messages).type = "ai"
        /\ HumanContents(SESSIONS[uid[c]].messages) = inputs[uid[c]]

\* C35: in a summary that trigger_sos returned, a contact has status success
\* and is counted in the k of "k/n sent" only if its message was handed to
\* the outbound channel (the channel was available and the send returned).
C35_SuccessMeansHandedOver ==
    (sos.pc = "returned" /\ sos.result.kind = "summary") =>
        LET Handed == {j \in 1..Len(sos.sends) :
                          sos.whatsapp /\ sos.sends[j].outcome = "ok"}
        IN  /\ \A j \in 1..Len(sos.results) :
                  sos.results[j].status = "success" => j \in Handed
            /\ sos.result.k = Cardinality(Handed)

\* contact c holds what the dict d supplied (the number as given or normalized)
Holds(c, d) ==
    /\ c.name = d.name
    /\ c.relation = d.relation
    /\ c.number \in {d.number, _normalize_number(d.number)}

\* the last registration was a save_contacts for the user of the trigger
\* that returned the given success text
SavedWith(text) ==
    reg.kind = "pair" /\ reg.user = sos.user /\ reg.text = text

\* C37: contacts saved with save_contacts come back as they were supplied:
\* when trigger_sos loads its contacts after a successful save (from the
\* primary store after "saved to your account", from the local file after
\* "saved locally"), the two saved contacts it loads carry the names, numbers
\* and relations that were passed to save_contacts.
C37_SavedContactsRoundTrip ==
    [][/\ (sos.pc = "load_primary" /\ sos'.pc = "dispatch"
             /\ SavedWith("saved_to_account")) =>
              LET cl == sos'.contacts_list
                  n == Len(cl)
              IN  /\ n >= 2
                  /\ Holds(cl[n - 1], reg.given[1])
                  /\ Holds(cl[n], reg.given[2])
       /\ (sos.pc = "load_local" /\ sos'.pc = "dispatch"
             /\ SavedWith("saved_locally")) =>
              LET cl == sos'.contacts_list
              IN  /\ Len(cl) = 2
                  /\ Holds(cl[1], reg.given[1])
                  /\ Holds(cl[2], reg.given[2])]_vars

\* C38: after save_contacts returned a success text, the loading of a
\* trigger_sos for that user, when neither store fails to be read, ends with
\* both contacts of the saved pair in the list the alert is dispatched to;
\* this includes the save whose first write the primary store accepted and
\* whose second it refused, so that the pair went to the local file.
C38_TriggerReachesBothSaved ==
    [][(/\ sos.pc \in {"load_primary", "load_local"}
        /\ sos'.pc \in {"dispatch", "returned"}
        /\ sos'.primary_load # "error"
        /\ sos'.local_load # "error"
        /\ SavedWith("saved_to_account") \/ SavedWith("saved_locally")) =>
           LET cl == sos'.contacts_list
               n == Len(cl)
           IN  /\ sos'.pc = "dispatch"
               /\ n >= 2
               /\ <<cl[n - 1], cl[n]>> = <<ContactFromKeys(reg.given[1]),
                                           ContactFromKeys(reg.given[2])>>]_vars

\* the calls of the trip-planning enrichment
PlanningCalls == {"waterfall", "waterfall_images", "news", "budget"}

\* C39: the enrichment goes with the instruction chosen: the landmark block,
\* the landmark images, the news and the budget are among the calls only when
\* the trip-planning instruction is the one chosen, and a query that gets the
\* weather instruction or the images instruction gets no enrichment call.
C39_EnrichmentOfTemplate ==
    synth.pc = "done" =>
        /\ (\E k \in 1..Len(synth.steps) : synth.steps[k].call \in PlanningCalls) =>
               synth.final_prompt.template = "planning"
        /\ synth.final_prompt.template \in {"weather", "images"} =>
               synth.steps = <<>>

\* C36: a connection that is open (receiving, or in a turn) has the session
\* of its user id in SESSIONS, and no received text ends at the missing
\* session of line 242.
C36_OpenConnectionHasSession ==
    \A c \in Conns :
        /\ pc[c] \in {"recv", "invoke", "graph"} => HasSession(uid[c])
        /\ ~(sent[c] # <<>> /\ Last(sent[c]).kind = "connection_issue")

\* ws_chat alone: the server branch of the entry point
InitWs == Init /\ mode = "server"

\* the steps of a turn that has been received: the handler's own code and
\* the blocking GRAPH.invoke inside it
WsTurnStep ==
    \/ \E c \in Conns : WsInvoke(c)
    \/ \E c \in Conns : WsInvokeNoSession(c)
    \/ ChatbotNode
    \/ ToolsNode
    \/ \E c \in Conns : WsGraphRaise(c)
    \/ \E c \in Conns : WsGraphReturn(c)

\* user texts received in one run of the WebSocket loop taken alone
MaxWsTurns == 1

NextWs ==
    \/ \E c \in Conns, u \in UserIds : Connect(c, u)
    \/ \E c \in Conns, text \in UserTexts :
           TotalRecv < MaxWsTurns /\ WsShortCircuit(c, text)
    \/ \E c \in Conns, text \in UserTexts :
           TotalRecv < MaxWsTurns /\ WsTurn(c, text)
    \/ \E c \in Conns, text \in UserTexts :
           TotalRecv < MaxWsTurns /\ WsTurnNoSession(c, text)
    \/ \E c \in Conns : WsDisconnect(c)
    \/ WsTurnStep

\* a handler that has received a text goes on running: the awaited send
\* completes, and each model call and each tool call returns or raises
SpecWs == InitWs /\ [][NextWs]_vars /\ WF_vars(WsTurnStep)

\* C40: in the WebSocket loop every text received is answered: whenever the
\* handler is back at receive_text after a text, or has returned after one,
\* at least one text was sent since that text came in; and a handler that
\* has taken a text in does get back there.
C40_EveryMessageAnswered ==
    /\ [][\A c \in Conns :
             (\/ Received(c) /\ pc'[c] \in {"recv", "closed"}
              \/ pc[c] \in {"invoke", "graph"} /\ pc'[c] \in {"recv", "closed"}) =>
                 sent'[c] # <<>>]_vars
    /\ \A c \in Conns :
          (pc[c] \in {"invoke", "graph"}) ~> (pc[c] \in {"recv", "closed"})

\* a turn without progress note went through a tool round and the reply was
\* the one text sent for it
C40_Witness ==
    \E c \in Conns :
        /\ pc[c] = "recv"
        /\ nrecv[c] > 0
        /\ dispatches[c] = 1
        /\ Len(sent[c]) = 1
        /\ sent[c][1].kind = "reply"

====
